---- MODULE Spec2Model ----
(***************************************************************************)
(* Model of the opportunity evaluation engine of the flash-loan arbitrage  *)
(* bot: services/ArbitrageCalculator.py (path enumeration, position        *)
(* sizing, multi-source price aggregation, the hop walk and the ranking    *)
(* gate of scan_all_paths).                                                *)
(*                                                                         *)
(* Units.  The code counts token amounts in wei (10**18 per token) and     *)
(* money in Decimal dollars.  TLC's integers are 32 bits wide, so one      *)
(* token is Wei = 100 model units and money is counted in cents; every     *)
(* formula keeps the code's shape with 10**18 read as Wei.  Python         *)
(* integers and Decimals do not overflow, so no width is modelled.         *)
(* Python floats (deviation, confidence) are modelled as exact fractions   *)
(* [n, d] in lowest terms.                                                 *)
(***************************************************************************)
EXTENDS Integers, Naturals, Sequences, FiniteSets, TLC

\* ---------------------------------------------------------------- tokens
USDT == "USDT"
USDC == "USDC"
BUSD == "BUSD"
FDUSD == "FDUSD"
CAKE == "CAKE"
BTCB == "BTCB"
WBNB == "WBNB"

BASE_TOKENS == <<USDT, USDC, BUSD, FDUSD, BTCB, CAKE, WBNB>>

\* 10**18, the wei of one token, scaled (see Units above)
Wei == 100

\* ------------------------------------------------------------ arithmetic
Min2(a, b) == IF a <= b THEN a ELSE b
Max2(a, b) == IF a >= b THEN a ELSE b
Abs(a) == IF a < 0 THEN -a ELSE a

\* floor(a * b / c) for a, b >= 0 and c > 0, without forming a * b when a is large
MulDiv(a, b, c) == (a \div c) * b + (((a % c) * b) \div c)

RECURSIVE GCD(_, _)
GCD(a, b) == IF b = 0 THEN a ELSE GCD(b, a % b)

\* the fraction n / d (d > 0) in lowest terms
Frac(n, d) ==
    LET g == GCD(Abs(n), d)
    IN  [n |-> n \div g, d |-> d \div g]

\* n1/d1 < n2/d2 by comparing continued-fraction expansions (no products formed)
RECURSIVE LessRat(_, _, _, _)
LessRat(n1, d1, n2, d2) ==
    LET q1 == n1 \div d1
        q2 == n2 \div d2
        r1 == n1 % d1
        r2 == n2 % d2
    IN  IF q1 # q2 THEN q1 < q2
        ELSE IF r2 = 0 THEN FALSE
        ELSE IF r1 = 0 THEN TRUE
        ELSE LessRat(d2, r2, d1, r1)

\* (the operands are bound to their values first, so that each is evaluated once)
FracLT(a, b) == \E x \in {a}, y \in {b} : LessRat(x.n, x.d, y.n, y.d)
FracLE(a, b) == ~FracLT(b, a)
FracMin(a, b) == CHOOSE r \in {IF FracLT(y, x) THEN y ELSE x : x \in {a}, y \in {b}} : TRUE
FracMax(a, b) == CHOOSE r \in {IF FracLT(x, y) THEN y ELSE x : x \in {a}, y \in {b}} : TRUE
FracSub(a, b) ==
    CHOOSE r \in {Frac(x.n * y.d - y.n * x.d, x.d * y.d) : x \in {a}, y \in {b}} : TRUE

FracZero == [n |-> 0, d |-> 1]
FracOne == [n |-> 1, d |-> 1]

\* a * b and a / b on fractions in lowest terms, reduced crosswise before any
\* product is formed (b.n > 0 for the division)
FracMul(a, b) ==
    LET g1 == GCD(Abs(a.n), b.d)
        g2 == GCD(Abs(b.n), a.d)
    IN  IF a.n = 0 \/ b.n = 0 THEN FracZero
        ELSE [n |-> (a.n \div g1) * (b.n \div g2), d |-> (a.d \div g2) * (b.d \div g1)]
FracDiv(a, b) == FracMul(a, [n |-> b.d, d |-> b.n])
FracInt(k) == [n |-> k, d |-> 1]

\* ---------------------------------------------------------------- floats
\* the significant bits a float keeps (53 in Python, fewer here)
MantissaBits == 10

RECURSIVE Pow2(_)
Pow2(k) == IF k = 0 THEN 1 ELSE 2 * Pow2(k - 1)

\* x >= 0 rounded to an integer, ties to the even one
RoundHalfEven(x) ==
    LET q == x.n \div x.d
        r == x.n % x.d
    IN  IF 2 * r > x.d \/ (2 * r = x.d /\ q % 2 = 1) THEN q + 1 ELSE q

\* n / d > 0 scaled by powers of two into [2^(MantissaBits-1), 2^MantissaBits):
\* n / d = (the n / d returned) * 2^e
MantissaTop == Pow2(MantissaBits)
RECURSIVE Normalised(_, _, _)
Normalised(n, d, e) ==
    IF n \div d >= MantissaTop THEN Normalised(n, 2 * d, e + 1)
    ELSE IF 2 * (n \div d) < MantissaTop
    THEN IF d % 2 = 0 THEN Normalised(n, d \div 2, e - 1)
         ELSE Normalised(2 * n, d, e - 1)
    ELSE [n |-> n, d |-> d, e |-> e]

\* the float nearest to x > 0: the mantissa is rounded, ties to even
NearestFloat(x) ==
    LET s == Normalised(x.n, x.d, 0)
        m == RoundHalfEven(s)
    IN  IF s.e >= 0 THEN FracInt(m * Pow2(s.e)) ELSE Frac(m, Pow2(-s.e))

\* the float a real number is stored as (the operators on floats bind their
\* operands to a value first, so that an operand is evaluated once)
Rounded(x) ==
    IF x.n = 0 THEN FracZero
    ELSE IF x.n < 0
    THEN LET y == NearestFloat([n |-> -x.n, d |-> x.d]) IN [n |-> -y.n, d |-> y.d]
    ELSE NearestFloat(x)
float(x) == CHOOSE r \in {Rounded(v) : v \in {x}} : TRUE

\* k > 0 as OddPart(k) * 2^TwoExponent(k)
RECURSIVE OddPart(_)
OddPart(k) == IF k % 2 = 0 THEN OddPart(k \div 2) ELSE k
RECURSIVE TwoExponent(_)
TwoExponent(k) == IF k % 2 = 0 THEN 1 + TwoExponent(k \div 2) ELSE 0

\* x # 0 as OddFrac(x) * 2^Exponent2(x)
OddFrac(x) ==
    [n |-> IF x.n < 0 THEN -OddPart(-x.n) ELSE OddPart(x.n), d |-> OddPart(x.d)]
Exponent2(x) == TwoExponent(Abs(x.n)) - TwoExponent(x.d)

\* x * 2^e
Scaled(x, e) == IF e >= 0 THEN FracMul(x, FracInt(Pow2(e))) ELSE FracMul(x, Frac(1, Pow2(-e)))

\* a * b, a - b and a / b on floats: the exact result, rounded (the powers of
\* two are set aside while the product is rounded: scaling by them commutes
\* with the rounding)
RoundedProduct(a, b) ==
    IF a.n = 0 \/ b.n = 0 THEN FracZero
    ELSE LET e == Exponent2(a) + Exponent2(b)
         IN  Scaled(Scaled(float(FracMul(OddFrac(a), OddFrac(b))), e \div 2), e - (e \div 2))
fmul(a, b) == CHOOSE r \in {RoundedProduct(x, y) : x \in {a}, y \in {b}} : TRUE
fsub(a, b) == CHOOSE r \in {Rounded(FracSub(x, y)) : x \in {a}, y \in {b}} : TRUE
fdiv(a, b) == CHOOSE r \in {RoundedProduct(x, [n |-> y.d, d |-> y.n]) : x \in {a}, y \in {b}} : TRUE

\* Decimal.quantize(Decimal("0.01")), ROUND_HALF_EVEN: num/den dollars-cents
\* rounded to a whole number of cents; num / den is the amount in cents
QuantizeCents(num, den) ==
    LET q == num \div den
        r == num % den
    IN  IF 2 * r < den THEN q
        ELSE IF 2 * r > den THEN q + 1
        ELSE IF q % 2 = 0 THEN q ELSE q + 1

\* list.sort() on a sequence of integers (insertion sort, ascending)
RECURSIVE InsertAsc(_, _)
InsertAsc(s, x) ==
    IF s = <<>> THEN <<x>>
    ELSE IF x < Head(s) THEN <<x>> \o s
    ELSE <<Head(s)>> \o InsertAsc(Tail(s), x)

RECURSIVE SortAsc(_)
SortAsc(s) == IF s = <<>> THEN <<>> ELSE InsertAsc(SortAsc(Tail(s)), Head(s))

\* ---------------------------------------------------- price aggregation
\* the routers dict of get_price_multi_source, in insertion order
DexOrder == <<"pancakeswap", "biswap", "apeswap">>
Dex == {DexOrder[k] : k \in 1..Len(DexOrder)}

\* a router whose call raised is recorded as price 0
Quotes3(a, b, c) == [d \in Dex |-> IF d = "pancakeswap" THEN a ELSE IF d = "biswap" THEN b ELSE c]

\* valid_prices after valid_prices.sort()
ValidPrices(prices) ==
    SortAsc(SelectSeq([k \in 1..Len(DexOrder) |-> prices[DexOrder[k]]], LAMBDA x : x > 0))

\* the 15% that validation_thresholds has for stablecoin pairs
DeviationThresholdStablecoin == [n |-> 3, d |-> 20]

\* the deviation threshold of the manipulation check, 0.05
DeviationThreshold == [n |-> 1, d |-> 20]

\* median_price = valid_prices[len(valid_prices) // 2]  (sequences are 1-based here)
MedianOfSorted(valid_prices) == valid_prices[(Len(valid_prices) \div 2) + 1]

\* get_price_multi_source, given what the routers answered.  The dict returned
\* when no router gave a positive price has no 'sources' key: sources = 0
\* stands for the missing key.  'all_prices' is the argument itself.
get_price_multi_source(prices) ==
    LET valid_prices == ValidPrices(prices)
    IN  IF valid_prices = <<>>
        THEN [price |-> 0, confidence |-> FracZero, manipulation_detected |-> FALSE,
              sources |-> 0]
        ELSE
          LET median_price == MedianOfSorted(valid_prices)
              devs == {Abs(prices[d] - median_price) : d \in {e \in Dex : prices[e] > 0}}
              max_abs == CHOOSE x \in devs : \A y \in devs : y <= x
              max_deviation == Frac(max_abs, median_price)
          IN  [price |-> median_price,
               confidence |-> FracSub(FracOne, FracMin(max_deviation, FracOne)),
               manipulation_detected |->
                   \E x \in devs : FracLT(DeviationThreshold, Frac(x, median_price)),
               sources |-> Len(valid_prices)]

\* ------------------------------------------------------ path enumeration
TokenSet == {BASE_TOKENS[k] : k \in 1..Len(BASE_TOKENS)}

\* generate_multi_hop_paths() without "token_c == token_a" in the triangular loop
generate_multi_hop_pathsRevisiting ==
    {[path |-> <<a, b, c, a>>, start |-> a, hops |-> 3] :
        <<a, b, c>> \in {t \in TokenSet \X TokenSet \X TokenSet :
                            t[1] # t[2] /\ t[3] # t[2]}}
    \cup
    {[path |-> <<a, b, c, d, a>>, start |-> a, hops |-> 4] :
        <<a, b, c, d>> \in {t \in TokenSet \X TokenSet \X TokenSet \X TokenSet :
                            /\ t[1] # t[2]
                            /\ t[3] # t[1] /\ t[3] # t[2]
                            /\ t[4] # t[1] /\ t[4] # t[2] /\ t[4] # t[3]}}

\* generate_multi_hop_paths(): the triangular (3 hops) and the quadruple
\* (4 hops) cycles over BASE_TOKENS.  'name' is display only and is left out.
generate_multi_hop_paths ==
    {[path |-> <<a, b, c, a>>, start |-> a, hops |-> 3] :
        <<a, b, c>> \in {t \in TokenSet \X TokenSet \X TokenSet :
                            t[1] # t[2] /\ t[3] # t[1] /\ t[3] # t[2]}}
    \cup
    {[path |-> <<a, b, c, d, a>>, start |-> a, hops |-> 4] :
        <<a, b, c, d>> \in {t \in TokenSet \X TokenSet \X TokenSet \X TokenSet :
                            /\ t[1] # t[2]
                            /\ t[3] # t[1] /\ t[3] # t[2]
                            /\ t[4] # t[1] /\ t[4] # t[2] /\ t[4] # t[3]}}

TRI_PATHS == generate_multi_hop_paths

\* ----------------------------------------------------- position sizing
StableStart == {USDT, USDC, BUSD, FDUSD}

\* estimate_pair_liquidity: the base_liquidity table, $1M by default (dollars)
estimate_pair_liquidity(token_a, token_b) ==
    IF token_b = WBNB /\ token_a = USDT THEN 5000000
    ELSE IF token_b = WBNB /\ token_a = USDC THEN 3000000
    ELSE IF token_b = WBNB /\ token_a = BUSD THEN 2000000
    ELSE IF token_b = WBNB /\ token_a = BTCB THEN 10000000
    ELSE IF token_b = WBNB /\ token_a = CAKE THEN 8000000
    ELSE 1000000

\* min_liquidity after the loop over the hops; 0 stands for float('inf'),
\* which is what remains when the path has no hop
MinLiquidity(path) ==
    IF Len(path) < 2 THEN 0
    ELSE LET liqs == {estimate_pair_liquidity(path[k], path[k + 1]) : k \in 1..(Len(path) - 1)}
         IN  CHOOSE x \in liqs : \A y \in liqs : x <= y

\* max_position_pct, in percent
max_position_pct(base_token) ==
    IF base_token \in {BTCB, CAKE} THEN 2
    ELSE IF base_token \in {USDT, USDC, BUSD} THEN 5
    ELSE 3

\* the value token_price stands for when get_price_multi_source raised
Raised == [price |-> -1, confidence |-> FracZero, manipulation_detected |-> FALSE,
           sources |-> 0]

\* ApplyBounds without the "Min $1k per trade" line
ApplyBoundsNoFloor(num, den) ==
    LET capped == IF num > 50000 * den THEN 50000 * den ELSE num
    IN  QuantizeCents(capped * 100, den)

\* optimal_size = max(min(max_position_usd, 50000), 1000), quantized, in cents;
\* max_position_usd is num / den dollars
ApplyBounds(num, den) ==
    LET capped == IF num > 50000 * den THEN 50000 * den ELSE num
        floored == IF capped < 1000 * den THEN 1000 * den ELSE capped
    IN  QuantizeCents(floored * 100, den)

\* calculate_optimal_position_size, in cents.  liq_raises: estimate_pair_liquidity
\* raised inside the try; token_price: what get_price_multi_source(base_token, USDT)
\* returned (Raised when it raised).
calculate_optimal_position_size(path_info, liq_raises, token_price) ==
    LET path == path_info.path
        base_token == path_info.start
        min_liquidity == MinLiquidity(path)
        pct == max_position_pct(base_token)
    IN  IF liq_raises /\ Len(path) >= 2 THEN 500000
        ELSE IF min_liquidity = 0 THEN 500000
        ELSE IF base_token \in StableStart
             THEN ApplyBounds(min_liquidity * pct, 100)
        ELSE IF token_price = Raised THEN ApplyBounds(10000, 1)
        ELSE IF token_price.price > 0
             THEN ApplyBounds(((min_liquidity * pct) \div 100) * token_price.price, Wei)
        ELSE ApplyBounds(10000, 1)

\* ------------------------------------------------------ ArbitrageDetector
\* self.dexes in dictionary order, with the fee of each in hundredths of a percent
DetectorDexes == <<"PancakeSwap", "BiSwap", "ApeSwap", "MDEX", "BabySwap",
                   "UniswapV2", "SushiSwap">>
DexFee(dex) ==
    CASE dex = "PancakeSwap" -> 25
      [] dex = "BiSwap" -> 10
      [] dex = "ApeSwap" -> 20
      [] OTHER -> 30

\* thresholds of ArbitrageDetector.__init__ (dollars, percent, BNB)
min_profit_threshold == [n |-> 1, d |-> 2]
max_price_impact == [n |-> 3, d |-> 10]
max_trade_size == 1000000
gas_cost_bnb == [n |-> 1, d |-> 100]

\* min of several numbers written as fractions
FracMin3(a, b, c) == FracMin(FracMin(a, b), c)

\* (size / liquidity) * 100 of lines 62-63, in floats
price_impact(size, liquidity) == fmul(fdiv(size, FracInt(liquidity)), FracInt(100))

\* liquidity * 0.2 of lines 56-57, in floats
LiquidityShare(liquidity) == fmul(FracInt(liquidity), float(Frac(1, 5)))

\* calculate_optimal_trade_size: liquidity in dollars, fees in hundredths of a
\* percent; returns the size in dollars (computed in floats) and the profit in
\* percent
ReducedSize(max_size, price_impact_buy, price_impact_sell) ==
    LET adjustment_factor == FracMin(fdiv(float(max_price_impact), price_impact_buy),
                                     fdiv(float(max_price_impact), price_impact_sell))
    IN  IF FracLT(float(max_price_impact), price_impact_buy)
           \/ FracLT(float(max_price_impact), price_impact_sell)
        THEN fmul(max_size, adjustment_factor)
        ELSE max_size
calculate_optimal_trade_size(buy_price, sell_price, buy_liquidity, sell_liquidity, buy_fee, sell_fee) ==
    LET adjusted ==
            CHOOSE size \in
                UNION {{ReducedSize(max_size, price_impact_buy, price_impact_sell) :
                           price_impact_buy \in {price_impact(max_size, buy_liquidity)},
                           price_impact_sell \in {price_impact(max_size, sell_liquidity)}} :
                       max_size \in {FracMin3(LiquidityShare(buy_liquidity),
                                              LiquidityShare(sell_liquidity),
                                              FracInt(max_trade_size))}} : TRUE
        total_fee_percent == Frac(buy_fee + sell_fee, 100)
        price_diff == sell_price - buy_price
        profit_percent == FracSub(Frac(price_diff * 100, buy_price), total_fee_percent)
    IN  [max_size |-> adjusted, profit_percent |-> profit_percent]

\* estimate_gas_cost_usd
estimate_gas_cost_usd(bnb_price) == FracMul(gas_cost_bnb, FracInt(bnb_price))

\* min() of two confidence strings: Python compares strings character by
\* character, so "high" < "low" < "medium" < "very_high"
StringOrder == <<"high", "low", "medium", "very_high">>
StringRank(s) == CHOOSE k \in 1..Len(StringOrder) : StringOrder[k] = s
StringMin(a, b) == IF StringRank(b) < StringRank(a) THEN b ELSE a

\* prices.get(dex, {}).get('confidence', 'low'): "" stands for a missing key
ConfidenceOrLow(entry) == IF entry.confidence = "" THEN "low" ELSE entry.confidence

\* the gate of line 125
ReportedFlipped(net_profit_usd) == FracLT(net_profit_usd, min_profit_threshold)
Reported(net_profit_usd) == FracLT(min_profit_threshold, net_profit_usd)

\* return None; also what a pass of the loop body that appends nothing yields
NoOpportunity ==
    [found |-> FALSE, buy_dex |-> "", sell_dex |-> "", buy_price |-> 0, sell_price |-> 0,
     trade_size_usd |-> FracZero, profit_percent |-> FracZero, gas_cost_usd |-> FracZero,
     net_profit_usd |-> FracZero, buy_liquidity |-> 0, sell_liquidity |-> 0,
     confidence |-> ""]

\* one pass of the loop body (lines 97-145) for buy_dex, sell_dex: the
\* opportunity it appends, if any.  A price or liquidity of 0 stands for None,
\* a missing key or zero: all three are falsy at line 106.
PairOpportunity(buy_dex, sell_dex, prices, liquidity, bnb_price, sized) ==
    LET buy_price == prices[buy_dex].price
        sell_price == prices[sell_dex].price
        buy_liq == liquidity[buy_dex]
        sell_liq == liquidity[sell_dex]
        gas_cost_usd == estimate_gas_cost_usd(bnb_price)
        net_profit_usd == FracSub(FracMul(sized.max_size,
                                          FracDiv(sized.profit_percent, FracInt(100))),
                                  gas_cost_usd)
    IN  IF Reported(net_profit_usd)
        THEN [found |-> TRUE, buy_dex |-> buy_dex, sell_dex |-> sell_dex,
              buy_price |-> buy_price, sell_price |-> sell_price,
              trade_size_usd |-> sized.max_size,
              profit_percent |-> sized.profit_percent,
              gas_cost_usd |-> gas_cost_usd,
              net_profit_usd |-> net_profit_usd,
              buy_liquidity |-> buy_liq, sell_liquidity |-> sell_liq,
              confidence |-> StringMin(ConfidenceOrLow(prices[buy_dex]),
                                       ConfidenceOrLow(prices[sell_dex]))]
        ELSE NoOpportunity
AnalyzePair(buy_dex, sell_dex, prices, liquidity, bnb_price) ==
    IF buy_dex = sell_dex THEN NoOpportunity
    ELSE IF prices[buy_dex].price = 0 \/ prices[sell_dex].price = 0
            \/ liquidity[buy_dex] = 0 \/ liquidity[sell_dex] = 0
    THEN NoOpportunity
    ELSE CHOOSE o \in
           {PairOpportunity(buy_dex, sell_dex, prices, liquidity, bnb_price, sized) :
              sized \in {calculate_optimal_trade_size(
                            prices[buy_dex].price, prices[sell_dex].price,
                            liquidity[buy_dex], liquidity[sell_dex],
                            DexFee(buy_dex), DexFee(sell_dex))}} : TRUE

\* the two nested loops of lines 95-96: the opportunities list after them, in
\* the order buy_dex-major, sell_dex-minor
AnalyzePairs(prices, liquidity, bnb_price) ==
    LET n == Len(DetectorDexes)
        passes == [k \in 1..(n * n) |->
                     AnalyzePair(DetectorDexes[((k - 1) \div n) + 1],
                                 DetectorDexes[((k - 1) % n) + 1],
                                 prices, liquidity, bnb_price)]
    IN  SelectSeq(passes, LAMBDA o : o.found)

\* max(opportunities, key=net_profit_usd): the first of the largest
RECURSIVE MaxByNetProfit(_)
MaxByNetProfit(opps) ==
    IF Len(opps) = 1 THEN opps[1]
    ELSE LET best == MaxByNetProfit(SubSeq(opps, 1, Len(opps) - 1))
             x == opps[Len(opps)]
         IN  IF FracLT(best.net_profit_usd, x.net_profit_usd) THEN x ELSE best

\* the number of ordered pairs of different venues with all four values present
CompletePairs(prices, liquidity) ==
    Cardinality({x \in (1..Len(DetectorDexes)) \X (1..Len(DetectorDexes)) :
                    /\ x[1] # x[2]
                    /\ prices[DetectorDexes[x[1]]].price # 0
                    /\ prices[DetectorDexes[x[2]]].price # 0
                    /\ liquidity[DetectorDexes[x[1]]] # 0
                    /\ liquidity[DetectorDexes[x[2]]] # 0})

\* analyze_opportunity: the value returned
BestOfFirst(opps) ==
    IF opps # <<>> THEN opps[1] ELSE NoOpportunity
BestOf(opps) ==
    IF opps # <<>> THEN MaxByNetProfit(opps) ELSE NoOpportunity
analyze_opportunity(prices, liquidity, bnb_price) ==
    BestOf(AnalyzePairs(prices, liquidity, bnb_price))

\* get_historical_stats: the keys of the dict returned and the value under
\* 'total_opportunities' (-1 where the dict is empty and the key is missing)
get_historical_stats(history) ==
    IF history = <<>> THEN [keys |-> {}, total_opportunities |-> -1]
    ELSE [keys |-> {"total_opportunities", "avg_profit", "max_profit", "min_profit",
                    "total_profit", "most_profitable_pair"},
          total_opportunities |-> Len(history)]

\* ------------------------------------------- PythonArbitrageCalculator
\* self.TRIANGULAR_PATHS
TRIANGULAR_PATHS ==
    <<<<WBNB, USDT, BTCB>>, <<WBNB, BTCB, USDT>>, <<USDT, WBNB, BTCB>>,
      <<USDT, BTCB, WBNB>>, <<BTCB, WBNB, USDT>>, <<BTCB, USDT, WBNB>>>>

\* the keys f'{token1}_{token2}' of the rates dictionary, as pairs
RateKeys == {x \in {WBNB, USDT, BTCB} \X {WBNB, USDT, BTCB} : x[1] # x[2]}

\* an absent key of the rates dictionary
NoRate == [has |-> FALSE, rate |-> FracZero]
HasRate(r) == [has |-> TRUE, rate |-> r]

\* the hardcoded rates of lines 164-171
FallbackRates ==
    [x \in RateKeys |->
        HasRate(CASE x = <<WBNB, USDT>> -> float(FracInt(567))
                  [] x = <<USDT, WBNB>> -> fdiv(FracOne, float(FracInt(567)))
                  [] x = <<WBNB, BTCB>> -> float(Frac(1, 1000))
                  [] x = <<BTCB, WBNB>> -> float(FracInt(1000))
                  [] x = <<USDT, BTCB>> -> float(Frac(176, 100000))
                  [] x = <<BTCB, USDT>> -> float(FracInt(567)))]

\* pair_data without a 'price' key (or not a dict): the entry is passed over
NoPriceKey == -1

\* the loop of lines 145-155 over prices.items(), entry by entry: an entry is
\* [token1, token2, price] for the key "token1/token2"
RECURSIVE ExtractRates(_, _)
ExtractRates(entries, k) ==
    IF k = 0 THEN [x \in RateKeys |-> NoRate]
    ELSE LET rates == ExtractRates(entries, k - 1)
             e == entries[k]
         IN  IF e.price = NoPriceKey THEN rates
             ELSE [rates EXCEPT
                     ![<<e.token1, e.token2>>] = HasRate(FracInt(e.price)),
                     ![<<e.token2, e.token1>>] =
                         HasRate(IF e.price > 0 THEN fdiv(FracOne, FracInt(e.price))
                                 ELSE FracOne)]

\* _get_exchange_rates: price_data is [given, prices]; given = FALSE stands for
\* None, an empty dict or a dict without 'prices'
get_exchange_rates(price_data) ==
    LET rates == ExtractRates(price_data.prices, Len(price_data.prices))
    IN  IF price_data.given /\ (\E x \in RateKeys : rates[x].has)
        THEN rates
        ELSE FallbackRates

\* exchange_rates.get(key, 1.0)
RateOrOne(exchange_rates, key) ==
    IF exchange_rates[key].has THEN exchange_rates[key].rate ELSE FracOne

\* int(x * 10 ** 18): truncation toward zero (Wei stands for 10 ** 18)
ToWei(x) ==
    IF x.n >= 0 THEN (x.n * Wei) \div x.d ELSE -(((-x.n) * Wei) \div x.d)

\* no opportunity: return None
NoTriangle == [found |-> FALSE, path |-> <<>>, amountIn |-> 0, expectedProfit |-> 0,
               router |-> ""]

\* final_amount - amount_in of lines 108-112 and 118, in floats
path_profit(path, amount_in, exchange_rates) ==
    LET amount_b == fmul(FracInt(amount_in), RateOrOne(exchange_rates, <<path[1], path[2]>>))
        amount_c == fmul(amount_b, RateOrOne(exchange_rates, <<path[2], path[3]>>))
        final_amount == fmul(amount_c, RateOrOne(exchange_rates, <<path[3], path[1]>>))
    IN  fsub(final_amount, FracInt(amount_in))

\* profit_percentage = (profit / amount_in) * 100 of line 112 (amount_in # 0)
path_profit_percentage(path, amount_in, exchange_rates) ==
    fmul(fdiv(path_profit(path, amount_in, exchange_rates), FracInt(amount_in)),
         FracInt(100))

\* _calculate_path_profit; amount_in = 0 raises ZeroDivisionError at line 112,
\* which line 130 turns into None
calculate_path_profit(path, amount_in, exchange_rates) ==
    LET gain == path_profit(path, amount_in, exchange_rates)
        profit_percentage == path_profit_percentage(path, amount_in, exchange_rates)
    IN  IF Len(path) # 3 \/ amount_in = 0 THEN NoTriangle
        ELSE IF FracLT(Frac(1, 2), profit_percentage)
        THEN [found |-> TRUE, path |-> path, amountIn |-> amount_in * Wei,
              expectedProfit |-> ToWei(gain), router |-> "PANCAKESWAP"]
        ELSE NoTriangle

\* x.get('profit_percentage', 0): the dict built at lines 120-126 has no such key
ProfitPercentageKey(x) == 0

\* opportunities.sort(key=ProfitPercentageKey, reverse=True): stable
RECURSIVE InsertByKeyDesc(_, _)
InsertByKeyDesc(s, x) ==
    IF s = <<>> THEN <<x>>
    ELSE IF ProfitPercentageKey(s[Len(s)]) >= ProfitPercentageKey(x) THEN Append(s, x)
    ELSE Append(InsertByKeyDesc(SubSeq(s, 1, Len(s) - 1), x), s[Len(s)])

RECURSIVE SortByKeyDesc(_, _)
SortByKeyDesc(s, k) ==
    IF k = 0 THEN <<>> ELSE InsertByKeyDesc(SortByKeyDesc(s, k - 1), s[k])

\* calculate_opportunities: the 'opportunities' list of the dict returned
calculate_opportunities(amount_in, price_data) ==
    LET exchange_rates == get_exchange_rates(price_data)
        each == [k \in 1..Len(TRIANGULAR_PATHS) |->
                    calculate_path_profit(TRIANGULAR_PATHS[k], amount_in, exchange_rates)]
        opps == SelectSeq(each, LAMBDA o : o.found)
    IN  SortByKeyDesc(opps, Len(opps))

\* ------------------------------------------------- router_selector (direct path)
\* The three routers check_direct_profitable_path submits, in submission order
DirectDexes == <<"PancakeSwap", "ApeSwap", "BiSwap">>

\* A router as check_dex_price sees it: calls raise always, only for the full
\* amount, or never; the pool pays pct percent of a small input and slip
\* percent less of the full amount.
Quote(router, x, amount) ==
    IF x = amount THEN (x * (router.pct - router.slip)) \div 100
    ELSE (x * router.pct) \div 100
QuoteRaises(router, x, amount) ==
    router.raises = "always" \/ (router.raises = "full" /\ x = amount)

\* return None
NoQuote == [found |-> FALSE, output_amount |-> 0, price_impact |-> FracZero]

\* min(impacts) if impacts else 1.0
RECURSIVE MinImpact(_, _)
MinImpact(impacts, k) ==
    IF k = 0 THEN FracOne
    ELSE IF k = 1 THEN impacts[1]
    ELSE FracMin(MinImpact(impacts, k - 1), impacts[k])

\* check_dex_price.  The threshold of adjust_price_impact_threshold only
\* decides whether a warning is logged.
check_dex_price(router, amount) ==
    LET quick_check_amount == amount \div 100
        amounts1 == Quote(router, amount, amount)
        test_amounts == IF amount >= 1000
                        THEN <<amount \div 1000, amount \div 100, amount \div 10>>
                        ELSE <<amount \div 100>>
        measured(t) == /\ t > 0
                       /\ Quote(router, t, amount) > 0
                       /\ Quote(router, t, amount) * (amount \div t) > 0
        used == SelectSeq(test_amounts, measured)
        impacts == [k \in 1..Len(used) |->
                      LET expected_large == Quote(router, used[k], amount) * (amount \div used[k])
                      IN  Frac(expected_large - amounts1, expected_large)]
    IN  IF QuoteRaises(router, quick_check_amount, amount) THEN NoQuote
        ELSE IF Quote(router, quick_check_amount, amount) <= 0 THEN NoQuote
        ELSE IF QuoteRaises(router, amount, amount) THEN NoQuote
        ELSE IF \E k \in 1..Len(test_amounts) :
                   test_amounts[k] > 0 /\ QuoteRaises(router, test_amounts[k], amount)
             THEN NoQuote
        ELSE [found |-> TRUE, output_amount |-> amounts1,
              price_impact |-> MinImpact(impacts, Len(impacts))]

\* return None / best_profit = None
NoDirect == [found |-> FALSE, profit |-> FracZero, profit_percentage |-> FracZero,
             output_amount |-> 0, dex |-> "", price_impact |-> FracZero]

\* Collected with the loop ending at the first source without a result
RECURSIVE CollectedUntilFailure(_)
CollectedUntilFailure(quotes) ==
    IF quotes = <<>> \/ ~Head(quotes).found THEN <<>>
    ELSE <<Head(quotes)>> \o CollectedUntilFailure(Tail(quotes))

\* the loop of lines 250-259: the results list, in completion order
Collected(quotes) == SelectSeq(quotes, LAMBDA r : r.found)

\* the loop of lines 265-279 over results[1..k]
RECURSIVE BestProfit(_, _, _)
BestProfit(results, k, amount) ==
    IF k = 0 THEN NoDirect
    ELSE LET best_profit == BestProfit(results, k - 1, amount)
             output_amount == results[k].output_amount
             profit == Frac(output_amount * 1000 - amount * 1003, 1000)
             profit_percentage == FracMul(FracDiv(profit, FracInt(amount)), FracInt(100))
         IN  IF FracLT(FracZero, profit)
                /\ (~best_profit.found \/ FracLT(best_profit.profit, profit))
             THEN [found |-> TRUE, profit |-> profit,
                   profit_percentage |-> profit_percentage,
                   output_amount |-> output_amount, dex |-> results[k].dex_name,
                   price_impact |-> results[k].price_impact]
             ELSE best_profit

\* check_direct_profitable_path: completed is the order in which as_completed
\* yields the submitted futures, routers the router behind each name
check_direct_profitable_path(routers, completed, amount) ==
    LET quotes == [k \in 1..Len(completed) |->
                     [found |-> check_dex_price(routers[completed[k]], amount).found,
                      output_amount |-> check_dex_price(routers[completed[k]], amount).output_amount,
                      price_impact |-> check_dex_price(routers[completed[k]], amount).price_impact,
                      dex_name |-> completed[k]]]
        results == Collected(quotes)
    IN  IF results = <<>> THEN NoDirect
        ELSE BestProfit(results, Len(results), amount)

\* ------------------------------------ PriceAggregator._calculate_confidence
\* self.min_source_count: read at line 720, assigned nowhere (__init__ is lines
\* 10-136), so reading it raises AttributeError
AttributeError == "AttributeError"
min_source_count == AttributeError

RECURSIVE SeqMax(_)
SeqMax(s) == IF Len(s) = 1 THEN s[1] ELSE Max2(s[1], SeqMax(Tail(s)))
RECURSIVE SeqMin(_)
SeqMin(s) == IF Len(s) = 1 THEN s[1] ELSE Min2(s[1], SeqMin(Tail(s)))

\* lines 729-736: the tier for a spread and a number of sources
ConfidenceTier(spread, sources) ==
    IF FracLE(spread, Frac(1, 100)) /\ sources >= 4 THEN "very_high"
    ELSE IF FracLE(spread, Frac(2, 100)) /\ sources >= 3 THEN "high"
    ELSE IF FracLE(spread, Frac(5, 100)) /\ sources >= 2 THEN "medium"
    ELSE "low"

\* _calculate_confidence, given the non-None prices of the sources: the tier
\* returned, or the exception raised
calculate_confidence(valid_prices, price) ==
    IF min_source_count = AttributeError THEN AttributeError
    ELSE IF Len(valid_prices) < min_source_count THEN "low"
    ELSE ConfidenceTier(Frac(SeqMax(valid_prices) - SeqMin(valid_prices), price),
                        Len(valid_prices))

\* ------------------------------------------- TradeSimulator (trade_simulator.py)
\* An opportunity is the set of keys its dict has and the values of the keys
\* read; amounts returned are in hundredths of the unit of the estimates,
\* because the sampled multipliers are in hundredths.
SimulatorKeys == {"pool1", "pool2", "roi_percent", "estimated_gas_cost", "estimated_profit"}

\* the keys of an opportunity built by analyze_cross_pool_arbitrage that the
\* simulator reads (pair_analyzer.py lines 148-155)
AnalyzerKeys == {"pool1", "pool2", "estimated_profit", "roi_percent"}

KeyError == "KeyError"
NoTrade == [i |-> 0, profit |-> 0, gas_cost |-> 0, net_profit |-> 0, roi |-> FracZero]

\* simulation_results as initialised (lines 14-24); raised is the exception
\* that ended the call, "" when it returned
InitialResults ==
    [raised |-> "", total_profit |-> 0, successful_trades |-> 0, failed_trades |-> 0,
     average_roi |-> FracZero, total_gas_cost |-> 0, net_profit |-> 0,
     best_trade |-> NoTrade, worst_trade |-> NoTrade, trades |-> <<>>,
     projected_annual_profit |-> 0]

\* x / y on numpy floats: inf or nan for y = 0, which raises nothing
NotFinite == [n |-> 0, d |-> 0]
FloatDiv(x, y) ==
    IF y = 0 THEN NotFinite ELSE IF y > 0 THEN Frac(x, y) ELSE Frac(-x, -y)

\* sorted(opportunities, key=lambda x: x['roi_percent'], reverse=True): stable
RECURSIVE InsertByRoiDesc(_, _)
InsertByRoiDesc(s, x) ==
    IF s = <<>> THEN <<x>>
    ELSE IF s[Len(s)].roi_percent >= x.roi_percent THEN Append(s, x)
    ELSE Append(InsertByRoiDesc(SubSeq(s, 1, Len(s) - 1), x), s[Len(s)])

RECURSIVE SortByRoiDesc(_, _)
SortByRoiDesc(s, k) ==
    IF k = 0 THEN <<>> ELSE InsertByRoiDesc(SortByRoiDesc(s, k - 1), s[k])

\* lines 38-61: a trade that executed
SuccessfulTrade(results, trade, draw, i) ==
    LET gas_cost == trade.estimated_gas_cost * draw.gas_multiplier
        actual_profit == trade.estimated_profit * draw.profit_multiplier
        trade_result == [i |-> i, profit |-> actual_profit, gas_cost |-> gas_cost,
                         net_profit |-> actual_profit - gas_cost,
                         roi |-> FloatDiv((actual_profit - gas_cost) * 100, gas_cost)]
    IN  [results EXCEPT
           !.trades = Append(@, trade_result),
           !.total_profit = @ + actual_profit,
           !.total_gas_cost = @ + gas_cost,
           !.successful_trades = @ + 1,
           !.best_trade = IF @ = NoTrade \/ trade_result.net_profit > @.net_profit
                          THEN trade_result ELSE @,
           !.worst_trade = IF @ = NoTrade \/ trade_result.net_profit < @.net_profit
                           THEN trade_result ELSE @]

\* lines 62-64 with the gas added to nothing
FailedTradeNoGas(results, trade, draw) ==
    [results EXCEPT !.failed_trades = @ + 1]

\* lines 62-64: a trade that failed
FailedTrade(results, trade, draw) ==
    [results EXCEPT
       !.failed_trades = @ + 1,
       !.total_gas_cost = @ + trade.estimated_gas_cost * draw.gas_multiplier]

\* lines 66-77: the final statistics
FinalStatistics(results) ==
    LET net_profit == results.total_profit - results.total_gas_cost
    IN  [results EXCEPT
           !.average_roi = IF results.successful_trades > 0
                           THEN FloatDiv(net_profit * 100, results.total_gas_cost)
                           ELSE @,
           !.net_profit = net_profit,
           !.projected_annual_profit = net_profit * 8 * 365]

\* the loop of lines 29-64 from trade i on; draws[i] is what numpy sampled for
\* trade i
RECURSIVE RunTrades(_, _, _, _, _)
RunTrades(sorted_opps, n, draws, i, results) ==
    IF i > n THEN FinalStatistics(results)
    ELSE
      LET trade == sorted_opps[i]
      IN  IF "estimated_gas_cost" \notin trade.keys
          THEN [InitialResults EXCEPT !.raised = KeyError]
          ELSE IF draws[i].execution_success
          THEN IF {"estimated_profit", "pool1", "pool2"} \subseteq trade.keys
               THEN RunTrades(sorted_opps, n, draws, i + 1,
                              SuccessfulTrade(results, trade, draws[i], i))
               ELSE [InitialResults EXCEPT !.raised = KeyError]
          ELSE RunTrades(sorted_opps, n, draws, i + 1,
                         FailedTrade(results, trade, draws[i]))

\* the caller's list after the call, had line 27 been opportunities.sort(...)
CallersListSortedInPlace(opportunities) ==
    IF \E k \in 1..Len(opportunities) : "roi_percent" \notin opportunities[k].keys
    THEN opportunities
    ELSE SortByRoiDesc(opportunities, Len(opportunities))

\* the caller's list after the call: sorted() builds a new list (line 27) and
\* no statement assigns to a trade dict
CallersList(opportunities) == opportunities

\* simulate_multiple_trades: the dict returned, or the exception raised
simulate_multiple_trades(opportunities, num_trades, draws) ==
    IF \E k \in 1..Len(opportunities) : "roi_percent" \notin opportunities[k].keys
    THEN [InitialResults EXCEPT !.raised = KeyError]
    ELSE RunTrades(SortByRoiDesc(opportunities, Len(opportunities)),
                   Min2(num_trades, Len(opportunities)), draws, 1, InitialResults)

\* ------------------------------------------- final_printer_2025.py: the scan loop
\* Prices are in hundredths of a dollar, sleep times in tenths of a second.
RequestFailed == 0

\* abs(bnb_now - last_bnb_price) / last_bnb_price > Decimal("0.003")
MovedBeyond(bnb_now, reference) == Abs(bnb_now - reference) * 1000 > 3 * reference

\* vol_trigger (lines 49-62), given what the price request answered: the
\* globals after the call and the value returned
vol_trigger(last_bnb_price, vol_trigger_active, answer) ==
    IF answer = RequestFailed
    THEN [last_bnb_price |-> last_bnb_price, vol_trigger_active |-> vol_trigger_active,
          returned |-> FALSE]
    ELSE IF last_bnb_price > 0 /\ MovedBeyond(answer, last_bnb_price)
    THEN [last_bnb_price |-> last_bnb_price, vol_trigger_active |-> TRUE,
          returned |-> TRUE]
    ELSE [last_bnb_price |-> answer, vol_trigger_active |-> FALSE, returned |-> FALSE]

\* track_flash_loan (lines 75-85, the definition in force): last_balance after
\* the call, given the wallet's balance in dollars or a failed request
track_flash_loan(last_balance, answer) ==
    IF answer = RequestFailed THEN last_balance ELSE answer

\* sleep_time = 2.5 if is_vol_trigger else 6.8
SleepTime(is_vol_trigger) == IF is_vol_trigger THEN 25 ELSE 68

\* ------------------------------------------------ router_selector.rate_limit
\* The clock counts half seconds: RATE_LIMIT_DELAY = 1 second
RATE_LIMIT_DELAY == 2

\* a thread outside rate_limit
IdleThread == [pc |-> "idle", now |-> 0, wake |-> 0]
NoLimiter == [clock |-> 0, last_api_call |-> 0, threads |-> <<>>, released |-> <<>>,
              overlap |-> FALSE]

\* line 130: if now - last_api_call < RATE_LIMIT_DELAY
MustSleep(now, last_api_call) == now - last_api_call < RATE_LIMIT_DELAY

\* line 131: the argument of time.sleep
SleepFor(now, last_api_call) == RATE_LIMIT_DELAY - (now - last_api_call)

\* ------------------------------------------------ MEVProtectorAI (mev_protector.py)
\* A model file is [exists, inside, sha]: inside says its real path lies in the
\* models directory, sha stands for its SHA-256.  The manifest is "missing"
\* (or not JSON), a "dict" of name -> sha ("" for no entry) or some other JSON
\* value, a "list".
GasModel == "gas_price_predictor.pkl"
MevModel == "mev_detector.pkl"
ModelNames == {GasModel, MevModel}
TrainedSha == "trained"
NotLoaded == [raised |-> "", model |-> ""]

\* _load_manifest (lines 55-70): {} when the file is missing or invalid
load_manifest(manifest) ==
    IF manifest.kind = "missing" THEN [kind |-> "dict", entries |-> [m \in ModelNames |-> ""]]
    ELSE manifest

\* load_secure_model without the comparison of lines 106-108
load_secure_modelUnchecked(file, manifest, model_name) ==
    IF ~file.exists THEN [raised |-> "FileNotFoundError", model |-> ""]
    ELSE IF ~file.inside THEN [raised |-> "PermissionError", model |-> ""]
    ELSE IF load_manifest(manifest).kind # "dict"
    THEN [raised |-> "AttributeError", model |-> ""]
    ELSE IF load_manifest(manifest).entries[model_name] = ""
    THEN [raised |-> "ValueError", model |-> ""]
    ELSE [raised |-> "", model |-> file.sha]

\* load_secure_model (lines 87-115): the exception raised, or the content
\* joblib.load deserialized
load_secure_model(file, manifest, model_name) ==
    IF ~file.exists THEN [raised |-> "FileNotFoundError", model |-> ""]
    ELSE IF ~file.inside THEN [raised |-> "PermissionError", model |-> ""]
    ELSE IF load_manifest(manifest).kind # "dict"
    THEN [raised |-> "AttributeError", model |-> ""]
    ELSE IF load_manifest(manifest).entries[model_name] = ""
    THEN [raised |-> "ValueError", model |-> ""]
    ELSE IF file.sha # load_manifest(manifest).entries[model_name]
    THEN [raised |-> "ValueError", model |-> ""]
    ELSE [raised |-> "", model |-> file.sha]

\* _update_manifest_entry (lines 72-85) as called after training: a manifest
\* that is not a dict makes the assignment raise, which the caller swallows
update_manifest_entry(manifest, model_name, sha256_value) ==
    IF load_manifest(manifest).kind # "dict" THEN manifest
    ELSE [load_manifest(manifest) EXCEPT !.entries[model_name] = sha256_value]

\* the directory after _train_gas_price_model / _train_mev_detector saved the
\* model (lines 178-184, 227-233)
AfterTraining(dir, model_name) ==
    [files |-> [dir.files EXCEPT ![model_name] = [@ EXCEPT !.exists = TRUE,
                                                           !.sha = TrainedSha]],
     manifest |-> update_manifest_entry(dir.manifest, model_name, TrainedSha)]

\* one "load or train" step of initialize (lines 123-128, 131-136): the
\* directory afterwards, the model obtained, the exception if any, and what
\* was deserialized
LoadOrTrain(dir, model_name) ==
    IF dir.files[model_name].exists
    THEN LET r == load_secure_model(dir.files[model_name], dir.manifest, model_name)
         IN  [dir |-> dir, model |-> r.model, raised |-> r.raised,
              deserialized |-> IF r.raised = ""
                               THEN {[name |-> model_name, file |-> dir.files[model_name],
                                      manifest |-> dir.manifest]}
                               ELSE {}]
    ELSE [dir |-> AfterTraining(dir, model_name), model |-> TrainedSha, raised |-> "",
          deserialized |-> {}]

NoProtector ==
    [dir |-> [files |-> <<>>, manifest |-> [kind |-> "missing"]],
     gas_price_model |-> "", mev_detector |-> "", is_initialized |-> FALSE,
     returned |-> "", direct |-> NotLoaded, deserialized |-> {}, rejected |-> {}]

\* --------------------------------------------------------------- state
VARIABLES
    pc,                       \* where scan_all_paths / calculate_multi_hop_profit stands
    scanned,                  \* the paths of TRI_PATHS the loop has been through
    p,                        \* the loop variable p (path_info)
    market,                   \* 0, or the percent every pool pays out in this evaluation
    flash_amount_usd,         \* in cents
    amount_in,
    i,                        \* the hop index (the walk), the index of line 264's list
    total_manipulation_risk,
    total_confidence,
    total_fees,
    price_data,               \* the walk's latest price_data
    final_price_data,
    profit_usd,               \* before quantize: profit_usd / Wei is the profit in cents
    min_sources,              \* the minimum of line 264 so far
    result,                   \* what calculate_multi_hop_profit returned
    opportunities,
    best_profit,
    best_path,
    returned,                 \* the value scan_all_paths returned
    last,                     \* the latest pass through the gate: the result and the decision
    unanswered,               \* a query of the evaluation under way got no positive quote
    walk,                     \* of the evaluation under way: the fewest sources of an
                              \* observation of the walk, the hops asked a second time
    sz_in, sz_out,            \* calculate_optimal_position_size applied to drawn inputs
    ag_pair, ag_prices, ag_out, \* get_price_multi_source(token_in, token_out) applied to
                              \* drawn router answers
    opportunity_history,      \* ArbitrageDetector.opportunity_history
    det_returned,             \* what the latest ArbitrageDetector.analyze_opportunity returned
    tri_in, tri_out,          \* calculate_opportunities (PythonArbitrageCalculator) applied
    dp_in, dp_out,            \* check_direct_profitable_path applied
    cf_quotes, cf_price,      \* the sources' quotes of the latest cycle; the price argument
    cf_prev, cf_now, cf_step, \* the confidences of the cycle before and of the latest
                              \* cycle; what changed between them
    sim_in, sim_out,          \* simulate_multiple_trades applied
    printer,                  \* final_printer_2025: the globals of the scan loop and the
                              \* latest sleep_time
    fetches,                  \* the price fetched in the latest cycle and in the latest
                              \* earlier cycle that fetched one
    limiter,                  \* router_selector: the clock, last_api_call and the threads
                              \* inside rate_limit
    mev,                      \* MEVProtectorAI: the models directory and the object's fields
    candidate                 \* the path taken out of TRI_PATHS

vars == <<pc, scanned, p, market, flash_amount_usd, amount_in, i,
          total_manipulation_risk, total_confidence, total_fees, price_data,
          final_price_data, profit_usd, min_sources, result, opportunities,
          best_profit, best_path, returned, last, unanswered, walk, sz_in, sz_out, ag_pair, ag_prices,
          ag_out,
          opportunity_history, det_returned, tri_in, tri_out, dp_in, dp_out,
          cf_quotes, cf_price, cf_prev, cf_now, cf_step, sim_in, sim_out,
          printer, fetches, limiter, mev, candidate>>

\* the variables of the functions that are applied on their own
sizeVars == <<sz_in, sz_out>>
aggVars == <<ag_pair, ag_prices, ag_out>>
detVars == <<opportunity_history, det_returned>>
triVars == <<tri_in, tri_out>>
directVars == <<dp_in, dp_out>>
confVars == <<cf_quotes, cf_price, cf_prev, cf_now, cf_step>>
simVars == <<sim_in, sim_out>>
printerVars == <<printer, fetches>>
lateVars == <<limiter, mev, candidate>>
pureVars == <<sizeVars, aggVars, detVars, triVars, directVars, confVars, simVars, printerVars,
              lateVars>>

scanVars == <<pc, scanned, p, market, flash_amount_usd, amount_in, i,
              total_manipulation_risk, total_confidence, total_fees, price_data,
              final_price_data, profit_usd, min_sources, result, opportunities,
              best_profit, best_path, returned, last, unanswered, walk>>

\* ---------------------------------------------------------------- bounds
\* how many paths of TRI_PATHS one scan goes through
MaxPaths == 2

\* the paths a scan draws from: a stablecoin triangle, a second one, and a
\* quadruple cycle that starts at a volatile token
ScanPaths ==
    {x \in TRI_PATHS : x.path \in {<<USDT, USDC, BUSD, USDT>>,
                                   <<USDC, BUSD, USDT, USDC>>,
                                   <<BTCB, USDT, USDC, BUSD, BTCB>>}}

\* ------------------------------------------------------ the routers' answers
\* What the three routers answer is outside the program.  Each call site draws
\* the answer from a few cases that differ in how get_price_multi_source treats
\* them: no source, one source, two sources, three agreeing sources, a spread
\* under and over the 5% threshold, a spread that brings confidence to 0.
NoAnswer == Quotes3(0, 0, 0)

\* get_price_multi_source(base_token, USDT) of the sizing: no price, 3 USDT a token
SizeAnswers == {NoAnswer, Quotes3(300, 300, 300)}

\* get_price_multi_source(USDT, start): the start token bought by one USDT
StartAnswers == {NoAnswer, Quotes3(100, 100, 100), Quotes3(100, 100, 200)}

\* a pool that pays out pct percent of what it is given; nothing for nothing
PoolPays(amount, pct) == Quotes3(MulDiv(amount, pct, 100), MulDiv(amount, pct, 100),
                                 MulDiv(amount, pct, 100))

\* the hops of the walk
HopAnswers(amount, mkt) ==
    IF mkt # 0 THEN {PoolPays(amount, mkt)}
    ELSE {NoAnswer, Quotes3(1000, 0, 0), Quotes3(1000, 1000, 1000), Quotes3(960, 1000, 0),
          Quotes3(1000, 1000, 1300), Quotes3(1000, 1000, 2000)}

\* the conversion back to USDT, around the flash amount f (cents = model wei)
FinalAnswers(f, amount, mkt) ==
    IF mkt # 0 THEN {PoolPays(amount, 100)}
    ELSE {NoAnswer, Quotes3(f - 1000, 0, 0), Quotes3(f + 3000, f + 3000, f + 3000),
          Quotes3(f + 4000, 0, 0), Quotes3(f + 6000, f + 6000, 0),
          Quotes3(f + 8000, f + 8000, f + 8000), Quotes3(f + 6000, f + 8000, 0),
          Quotes3(f + 3000, (f * 6) \div 5, 0), Quotes3(f + 3000, f + 3000, 2 * f)}

\* the second queries of line 264
SourcesAnswers == {NoAnswer, Quotes3(1000, 1000, 0)}

\* the percent the pools pay out when the evaluation runs against a market
MarketRates == {99, 101}

Markets(path) == IF path.start \in StableStart /\ path.hops = 3 THEN {0} \cup MarketRates ELSE {0}

\* ------------------------------------------------------- calculate_multi_hop_profit
NoPath == [path |-> <<>>, start |-> "", hops |-> 0]
NoData == [price |-> 0, confidence |-> FracZero, manipulation_detected |-> FALSE, sources |-> 0]
NoResult == [profit |-> 0, confidence |-> FracZero, manipulation_risk |-> FALSE,
             sources_used |-> 0, hops |-> 0, total_fees |-> 0]
NoLast == [result |-> NoResult, hops |-> 0, ranked |-> FALSE]

\* nothing observed yet: no observation has more sources than there are routers
NoWalk == [sources |-> Len(DexOrder), requeried |-> 0]

\* {'profit': 0, 'confidence': 0, 'manipulation_risk': True}: the dict has no
\* 'sources_used', 'hops' or 'total_fees_usd' key (0 stands for the missing key)
Rejection == [profit |-> 0, confidence |-> FracZero, manipulation_risk |-> TRUE,
              sources_used |-> 0, hops |-> 0, total_fees |-> 0]

\* confidence < 0.7
ConversionFloor == [n |-> 7, d |-> 10]

\* fee_rate = 9975 // 10000
fee_rate == 9975 \div 10000

\* amount_in = price_data['price'] * fee_rate // 10000
ApplyFee(price) == MulDiv(price, fee_rate, 10000)

\* ApplyHopPenalty with the penalty starting one hop late: max(0, hops - 4)
ApplyHopPenaltyLate(confidence, hops) ==
    FracMax(FracZero, FracSub(confidence, Frac(Max2(0, hops - 4), 10)))

\* hop_penalty = max(0, hops - 3) * 0.1; total_confidence = max(0, total_confidence - hop_penalty)
ApplyHopPenalty(confidence, hops) ==
    FracMax(FracZero, FracSub(confidence, Frac(Max2(0, hops - 3), 10)))

\* the locals of one evaluation, as they are before it starts
ClearLocals ==
    /\ amount_in' = 0
    /\ i' = 0
    /\ total_manipulation_risk' = FALSE
    /\ total_confidence' = FracOne
    /\ total_fees' = 0
    /\ price_data' = NoData
    /\ final_price_data' = NoData
    /\ profit_usd' = 0
    /\ min_sources' = 0

\* return {'profit': Decimal("0"), 'confidence': 0, 'manipulation_risk': True}
ReturnRejection ==
    /\ result' = Rejection
    /\ pc' = "gate"
    /\ ClearLocals

\* scan_all_paths takes the next path and calculate_multi_hop_profit sizes it
\* (lines 275-276, 208-215)
ScanNext ==
    /\ pc = "loop"
    /\ Cardinality(scanned) < MaxPaths
    /\ \E path \in ScanPaths \ scanned :
       \E mkt \in Markets(path) :
       \E answer \in (IF path.start \in StableStart THEN {NoAnswer} ELSE SizeAnswers) :
          /\ p' = path
          /\ market' = mkt
          /\ flash_amount_usd' =
                calculate_optimal_position_size(path, FALSE, get_price_multi_source(answer))
    /\ pc' = "convert"
    /\ last' = NoLast
    /\ unanswered' = FALSE
    /\ walk' = NoWalk
    /\ UNCHANGED <<scanned, amount_in, i, total_manipulation_risk, total_confidence,
                   total_fees, price_data, final_price_data, profit_usd, min_sources,
                   result, opportunities, best_profit, best_path, returned,
                   pureVars>>

\* the starting USD amount becomes a token amount (lines 217-231)
Convert ==
    /\ pc = "convert"
    /\ IF p.start \in StableStart
       THEN /\ amount_in' = (flash_amount_usd * Wei) \div 100
            /\ pc' = "hop"
            /\ i' = 1
            /\ UNCHANGED <<result, total_manipulation_risk, total_confidence, total_fees,
                           price_data, final_price_data, profit_usd, min_sources,
                           unanswered, walk>>
       ELSE \E answer \in StartAnswers :
              LET pd == get_price_multi_source(answer)
              IN  IF pd.price = 0 \/ FracLT(pd.confidence, ConversionFloor)
                  THEN ReturnRejection /\ unanswered' = (ValidPrices(answer) = <<>>)
                       /\ UNCHANGED walk
                  ELSE /\ unanswered' = FALSE /\ UNCHANGED walk
                       /\ amount_in' = (((flash_amount_usd * Wei) \div 100) * Wei) \div pd.price
                       /\ pc' = "hop"
                       /\ i' = 1
                       /\ UNCHANGED <<result, total_manipulation_risk, total_confidence,
                                      total_fees, price_data, final_price_data, profit_usd,
                                      min_sources>>
    /\ UNCHANGED <<scanned, p, market, flash_amount_usd, opportunities, best_profit,
                   best_path, returned, last, pureVars>>

\* one pass of the loop over the hops (lines 233-242)
Hop ==
    /\ pc = "hop"
    /\ \E answer \in HopAnswers(amount_in, market) :
         LET pd == get_price_multi_source(answer)
         IN  IF pd.price = 0
             THEN ReturnRejection /\ unanswered' = (ValidPrices(answer) = <<>>)
                  /\ UNCHANGED walk
             ELSE /\ unanswered' = FALSE
                  /\ walk' = [walk EXCEPT !.sources = Min2(@, pd.sources)]
                  /\ amount_in' = ApplyFee(pd.price)
                  /\ total_fees' = total_fees + (pd.price - ApplyFee(pd.price))
                  /\ total_manipulation_risk' =
                        (total_manipulation_risk \/ pd.manipulation_detected)
                  /\ total_confidence' = FracMin(total_confidence, pd.confidence)
                  /\ price_data' = pd
                  /\ i' = i + 1
                  /\ pc' = IF i = Len(p.path) - 1 THEN "final" ELSE "hop"
                  /\ UNCHANGED <<result, final_price_data, profit_usd, min_sources>>
    /\ UNCHANGED <<scanned, p, market, flash_amount_usd, opportunities, best_profit,
                   best_path, returned, last, pureVars>>

\* back to USD (lines 244-254)
Final ==
    /\ pc = "final"
    /\ \E answer \in FinalAnswers(flash_amount_usd, amount_in, market) :
         LET fpd == get_price_multi_source(answer)
         IN  IF fpd.price = 0 \/ FracLT(fpd.confidence, ConversionFloor)
             THEN ReturnRejection /\ unanswered' = (ValidPrices(answer) = <<>>)
                  /\ UNCHANGED walk
             ELSE /\ unanswered' = FALSE
                  /\ walk' = [walk EXCEPT !.sources = Min2(@, fpd.sources)]
                  /\ final_price_data' = fpd
                  /\ profit_usd' = fpd.price * 100 - flash_amount_usd * Wei
                  /\ total_manipulation_risk' =
                        (total_manipulation_risk \/ fpd.manipulation_detected)
                  /\ total_confidence' = FracMin(total_confidence, fpd.confidence)
                  /\ pc' = "penalty"
                  /\ UNCHANGED <<result, amount_in, i, total_fees, price_data, min_sources>>
    /\ UNCHANGED <<scanned, p, market, flash_amount_usd, opportunities, best_profit,
                   best_path, returned, last, pureVars>>

\* the hop-count penalty (lines 256-258)
Penalty ==
    /\ pc = "penalty"
    /\ total_confidence' = ApplyHopPenalty(total_confidence, p.hops)
    /\ pc' = "sources"
    /\ i' = 1
    /\ min_sources' = final_price_data.sources
    /\ UNCHANGED <<scanned, p, market, flash_amount_usd, amount_in, total_manipulation_risk,
                   total_fees, price_data, final_price_data, profit_usd, result,
                   opportunities, best_profit, best_path, returned, last, unanswered, walk,
                   pureVars>>

\* 'sources_used' (line 264) asks every hop's price again, with the default
\* amount, and reads ['sources']: a KeyError when no router answers.  After the
\* last hop the dict is returned (lines 260-267).
Sources ==
    /\ pc = "sources"
    /\ \E answer \in SourcesAnswers :
         LET again == get_price_multi_source(answer)
         IN  /\ unanswered' = (ValidPrices(answer) = <<>>)
             /\ walk' = [walk EXCEPT !.requeried = @ + 1]
             /\ IF again.sources = 0
               THEN /\ pc' = "crashed"
                    /\ UNCHANGED <<result, amount_in, i, total_manipulation_risk,
                                   total_confidence, total_fees, price_data,
                                   final_price_data, profit_usd, min_sources>>
               ELSE IF i < Len(p.path) - 1
               THEN /\ min_sources' = Min2(min_sources, again.sources)
                    /\ i' = i + 1
                    /\ pc' = "sources"
                    /\ UNCHANGED <<result, amount_in, total_manipulation_risk,
                                   total_confidence, total_fees, price_data,
                                   final_price_data, profit_usd>>
               ELSE /\ result' = [profit |-> QuantizeCents(profit_usd, Wei),
                                  confidence |-> total_confidence,
                                  manipulation_risk |-> total_manipulation_risk,
                                  sources_used |-> Min2(min_sources, again.sources),
                                  hops |-> p.hops,
                                  total_fees |-> total_fees]
                    /\ pc' = "gate"
                    /\ ClearLocals
    /\ UNCHANGED <<scanned, p, market, flash_amount_usd, opportunities, best_profit,
                   best_path, returned, last, pureVars>>

\* ------------------------------------------------------------ scan_all_paths
\* profit_threshold without the hop term
profit_thresholdFlat(hops) == 3000

\* profit_threshold = Decimal("30") + (hops - 3) * Decimal("10"), in cents
profit_threshold(hops) == 3000 + (hops - 3) * 1000

\* confidence > 0.75
ActionabilityFloor == [n |-> 3, d |-> 4]

\* Actionable without "and not manipulation_risk"
ActionableIgnoringManipulation(profit, confidence, manipulation_risk, hops) ==
    /\ profit > profit_threshold(hops)
    /\ FracLT(ActionabilityFloor, confidence)

\* Actionable with the profit test alone
ActionableProfitOnly(profit, confidence, manipulation_risk, hops) ==
    profit > profit_threshold(hops)

\* if profit > profit_threshold and confidence > 0.75 and not manipulation_risk
Actionable(profit, confidence, manipulation_risk, hops) ==
    /\ profit > profit_threshold(hops)
    /\ FracLT(ActionabilityFloor, confidence)
    /\ ~manipulation_risk

\* result.get('hops', 3)
ResultHops(r) == IF r.hops = 0 THEN 3 ELSE r.hops

\* the body of the loop after the evaluation (lines 277-298)
Gate ==
    /\ pc = "gate"
    /\ LET profit == result.profit
           confidence == result.confidence
           manipulation_risk == result.manipulation_risk
           hops == ResultHops(result)
           ok == Actionable(profit, confidence, manipulation_risk, hops)
       IN  /\ opportunities' =
                IF ok
                THEN Append(opportunities,
                            [path |-> p, profit |-> profit, confidence |-> confidence,
                             sources |-> result.sources_used, hops |-> hops,
                             fees |-> result.total_fees])
                ELSE opportunities
           /\ best_profit' = IF profit > best_profit THEN profit ELSE best_profit
           /\ best_path' = IF profit > best_profit THEN p ELSE best_path
           /\ last' = [result |-> result, hops |-> hops, ranked |-> ok]
    /\ scanned' = scanned \cup {p}
    /\ pc' = "loop"
    /\ p' = NoPath
    /\ market' = 0
    /\ flash_amount_usd' = 0
    /\ result' = NoResult
    /\ UNCHANGED <<amount_in, i, total_manipulation_risk, total_confidence, total_fees,
                   price_data, final_price_data, profit_usd, min_sources, returned,
                   unanswered, walk, pureVars>>

\* x['profit'] / x['hops'] of a is below that of b
LessEfficient(a, b) == a.profit * b.hops < b.profit * a.hops

\* opportunities.sort(key=lambda x: x['profit'] / x['hops'], reverse=True):
\* a stable sort, so opportunities of equal key stay in the order of the list
RECURSIVE InsertByEfficiency(_, _)
InsertByEfficiency(s, x) ==
    IF s = <<>> THEN <<x>>
    ELSE IF LessEfficient(Head(s), x) THEN <<x>> \o s
    ELSE <<Head(s)>> \o InsertByEfficiency(Tail(s), x)

\* the sort with key=lambda x: x['profit'], reverse=True
RECURSIVE InsertByProfit(_, _)
InsertByProfit(s, x) ==
    IF s = <<>> THEN <<x>>
    ELSE IF Head(s).profit < x.profit THEN <<x>> \o s
    ELSE <<Head(s)>> \o InsertByProfit(Tail(s), x)

RECURSIVE SortByProfit(_)
SortByProfit(s) ==
    IF s = <<>> THEN <<>>
    ELSE InsertByProfit(SortByProfit(SubSeq(s, 1, Len(s) - 1)), s[Len(s)])

RECURSIVE SortByEfficiency(_)
SortByEfficiency(s) ==
    IF s = <<>> THEN <<>>
    ELSE InsertByEfficiency(SortByEfficiency(SubSeq(s, 1, Len(s) - 1)), s[Len(s)])

\* the loop is over: sort and return (lines 300-312)
ScanEnd ==
    /\ pc = "loop"
    /\ opportunities' = SortByEfficiency(opportunities)
    /\ returned' = IF opportunities # <<>>
                   THEN SortByEfficiency(opportunities)[1].profit
                   ELSE best_profit
    /\ pc' = "done"
    /\ last' = NoLast
    /\ unanswered' = FALSE
    /\ walk' = NoWalk
    /\ UNCHANGED <<scanned, p, market, flash_amount_usd, amount_in, i,
                   total_manipulation_risk, total_confidence, total_fees, price_data,
                   final_price_data, profit_usd, min_sources, result, best_profit,
                   best_path, pureVars>>

NotSized == [done |-> FALSE, size |-> 0]
NotAggregated == [done |-> FALSE, data |-> NoData]

ScanInit ==
    /\ pc = "loop"
    /\ scanned = {}
    /\ p = NoPath
    /\ market = 0
    /\ flash_amount_usd = 0
    /\ amount_in = 0
    /\ i = 0
    /\ total_manipulation_risk = FALSE
    /\ total_confidence = FracOne
    /\ total_fees = 0
    /\ price_data = NoData
    /\ final_price_data = NoData
    /\ profit_usd = 0
    /\ min_sources = 0
    /\ result = NoResult
    /\ opportunities = <<>>
    /\ best_profit = 0
    /\ best_path = NoPath
    /\ returned = 0
    /\ last = NoLast
    /\ unanswered = FALSE
    /\ walk = NoWalk

\* calculate_optimal_position_size is not applied on its own
SizeIdle ==
    /\ sz_in = [path_info |-> NoPath, liq_raises |-> FALSE, token_price |-> NoData]
    /\ sz_out = NotSized

\* get_price_multi_source is not applied on its own
AggIdle ==
    /\ ag_pair = <<USDT, USDT>>
    /\ ag_prices = NoAnswer
    /\ ag_out = NotAggregated

\* the confidence levels of the two venues of the opportunity returned, as
\* line 140 reads them; none when nothing is returned
NoVenues == [buy |-> "", sell |-> ""]
VenueConfidences(value, prices) ==
    IF value.found
    THEN [buy |-> ConfidenceOrLow(prices[value.buy_dex]),
          sell |-> ConfidenceOrLow(prices[value.sell_dex])]
    ELSE NoVenues

\* ArbitrageDetector is not called
NotCalled ==
    [calls |-> 0, value |-> NoOpportunity, left_out |-> FALSE, venues |-> NoVenues,
     top_net |-> FracZero, any_above |-> FALSE, returns |-> 0]
DetectorIdle ==
    /\ opportunity_history = <<>>
    /\ det_returned = NotCalled

\* calculate_opportunities is not applied
NoTriangles == [done |-> FALSE, opportunities |-> <<>>]
TriangleIdle ==
    /\ tri_in = [amount_in |-> 0, price_data |-> [given |-> FALSE, prices |-> <<>>]]
    /\ tri_out = NoTriangles

\* check_direct_profitable_path is not applied
NotChecked == [done |-> FALSE, best |-> NoDirect]
DirectIdle ==
    /\ dp_in = [routers |-> [d \in {DirectDexes[k] : k \in 1..Len(DirectDexes)} |->
                                [raises |-> "always", pct |-> 0, slip |-> 0]],
                completed |-> DirectDexes, amount |-> 0]
    /\ dp_out = NotChecked

\* rate_limit is not called and no MEVProtectorAI is constructed
LateIdle ==
    /\ limiter = NoLimiter
    /\ mev = NoProtector
    /\ candidate = NoPath

\* the printer as loaded (lines 37-38, 65, 367), not running
PrinterIdle == [running |-> FALSE, scan_count |-> 0, last_balance |-> 0,
                last_bnb_price |-> 0, vol_trigger_active |-> FALSE, sleep_time |-> 0]
NoFetches == [now |-> RequestFailed, previous |-> RequestFailed]
PrinterIdleState ==
    /\ printer = PrinterIdle
    /\ fetches = NoFetches

\* simulate_multiple_trades is not applied
NotSimulated == [done |-> FALSE, results |-> InitialResults]
SimulatorIdle ==
    /\ sim_in = [opportunities |-> <<>>, num_trades |-> 0, draws |-> <<>>]
    /\ sim_out = NotSimulated

\* no confidence is computed
NotComputed == [tier |-> "", numeric |-> NoData]
ConfidenceIdle ==
    /\ cf_quotes = <<>>
    /\ cf_price = 0
    /\ cf_prev = NotComputed
    /\ cf_now = NotComputed
    /\ cf_step = [kind |-> "idle", count |-> 0]

Init ==
    /\ ScanInit
    /\ SizeIdle
    /\ AggIdle
    /\ DetectorIdle
    /\ TriangleIdle
    /\ DirectIdle
    /\ ConfidenceIdle
    /\ SimulatorIdle
    /\ PrinterIdleState
    /\ LateIdle

Next ==
    \/ ScanNext
    \/ Convert
    \/ Hop
    \/ Final
    \/ Penalty
    \/ Sources
    \/ Gate
    \/ ScanEnd

Spec == Init /\ [][Next]_vars

\* ------------------------------------- calculate_optimal_position_size alone
\* the token prices the sizing is tried with: 0 .. MaxSizePrice model wei a token
MaxSizePrice == 300

\* the paths the sizing is tried with: for every start token the cycles through
\* two fixed followers, a path without a hop and two single-hop paths whose
\* pool is in the base_liquidity table
SizePaths ==
    {x \in TRI_PATHS : x.path[2] \in {USDT, WBNB} /\ x.path[3] \in {USDC, BTCB}
                       /\ (x.hops = 4 => x.path[4] = BUSD)}
    \cup {[path |-> <<USDT>>, start |-> USDT, hops |-> 0],
          [path |-> <<BTCB, WBNB>>, start |-> BTCB, hops |-> 1],
          [path |-> <<USDT, WBNB>>, start |-> USDT, hops |-> 1]}

SizeInputs ==
    {[path_info |-> x, liq_raises |-> r, token_price |-> t] :
        x \in SizePaths, r \in BOOLEAN,
        t \in {Raised} \cup {get_price_multi_source(Quotes3(k, 0, 0)) : k \in 0..MaxSizePrice}}

InitSize ==
    /\ ScanInit
    /\ sz_in \in {x \in SizeInputs :
                    (x.path_info.start \in StableStart \/ x.liq_raises) => x.token_price = Raised}
    /\ sz_out = NotSized
    /\ AggIdle
    /\ DetectorIdle
    /\ TriangleIdle
    /\ DirectIdle
    /\ ConfidenceIdle
    /\ SimulatorIdle
    /\ PrinterIdleState
    /\ LateIdle

SizeApply ==
    /\ ~sz_out.done
    /\ sz_out' = [done |-> TRUE,
                  size |-> calculate_optimal_position_size(sz_in.path_info, sz_in.liq_raises,
                                                           sz_in.token_price)]
    /\ UNCHANGED <<scanVars, sz_in, aggVars, detVars, triVars, directVars, confVars, simVars, printerVars, lateVars>>

NextSize == SizeApply

SpecSize == InitSize /\ [][NextSize]_vars

\* -------------------------------------------- get_price_multi_source alone
\* the router answers go from 96 to 96 + 2 * MaxSpread around 100, or fail (0),
\* or double (200)
MaxSpread == 6

AggPrices == {0, 200} \cup {96 + 2 * k : k \in 0..MaxSpread}

\* the pairs asked for: two stablecoins, a major token, another token
AggPairs == {<<USDT, USDC>>, <<BTCB, USDT>>, <<CAKE, USDT>>}

InitAgg ==
    /\ ScanInit
    /\ SizeIdle
    /\ DetectorIdle
    /\ TriangleIdle
    /\ DirectIdle
    /\ ConfidenceIdle
    /\ SimulatorIdle
    /\ PrinterIdleState
    /\ LateIdle
    /\ ag_pair \in AggPairs
    /\ ag_prices \in [Dex -> AggPrices]
    /\ ag_out = NotAggregated

Aggregate ==
    /\ ~ag_out.done
    /\ ag_out' = [done |-> TRUE, data |-> get_price_multi_source(ag_prices)]
    /\ UNCHANGED <<scanVars, sizeVars, ag_pair, ag_prices, detVars, triVars, directVars, confVars, simVars, printerVars, lateVars>>

NextAgg == Aggregate

SpecAgg == InitAgg /\ [][NextAgg]_vars

\* ------------------------------------- ArbitrageDetector.analyze_opportunity
\* the detector is called at most MaxCalls times
MaxCalls == 2

\* the venues that report data; the other venues of self.dexes are missing
\* from the prices and liquidity dictionaries
ReportingDexes == {"PancakeSwap", "BiSwap", "MDEX"}

\* the dictionaries the detector is called with
DetectorPrices ==
    {[d \in {DetectorDexes[k] : k \in 1..Len(DetectorDexes)} |->
        IF d \in ReportingDexes THEN [price |-> f[d], confidence |-> c[d]]
        ELSE [price |-> 0, confidence |-> ""]] :
        f \in [ReportingDexes -> {0, 100, 103}],
        c \in {[d \in ReportingDexes |-> ""],
               [d \in ReportingDexes |-> IF d = "MDEX" THEN "high" ELSE "medium"]}}

DetectorLiquidity ==
    {[d \in {DetectorDexes[k] : k \in 1..Len(DetectorDexes)} |->
        IF d \in ReportingDexes THEN l[d] ELSE 0] :
        l \in {[d \in ReportingDexes |-> 369000],
               [d \in ReportingDexes |-> 400000000],
               [d \in ReportingDexes |-> IF d = "BiSwap" THEN 0 ELSE 90000]}}

DetectorBnbPrices == {300, 200000}

InitDetector ==
    /\ ScanInit
    /\ SizeIdle
    /\ AggIdle
    /\ TriangleIdle
    /\ DirectIdle
    /\ ConfidenceIdle
    /\ SimulatorIdle
    /\ PrinterIdleState
    /\ LateIdle
    /\ opportunity_history = <<>>
    /\ det_returned = NotCalled

\* the largest net profit among the pairs of different venues with complete
\* data and a net profit above the threshold (0 when there is none)
TopNet(above) ==
    IF above = <<>> THEN FracZero
    ELSE LET nets == {above[k].net_profit_usd : k \in 1..Len(above)}
         IN  CHOOSE x \in nets : \A y \in nets : FracLE(y, x)

\* what a call can return: the value, whether the loop left a pair with
\* complete data out of its list, the levels of the two venues, the largest
\* net profit above the threshold and whether there is one
DetectorOutcome(above, prices, liquidity) ==
    [value |-> BestOf(above),
     left_out |-> Len(above) < CompletePairs(prices, liquidity),
     venues |-> VenueConfidences(BestOf(above), prices),
     top_net |-> TopNet(above),
     any_above |-> above # <<>>]
DetectorOutcomes ==
    UNION {{DetectorOutcome(above, prices, liquidity) :
               above \in {AnalyzePairs(prices, liquidity, bnb_price)}} :
           prices \in DetectorPrices, liquidity \in DetectorLiquidity,
           bnb_price \in DetectorBnbPrices}

Analyze ==
    /\ det_returned.calls < MaxCalls
    /\ \E outcome \in DetectorOutcomes :
          LET best_opportunity == outcome.value
          IN  /\ opportunity_history' =
                    IF best_opportunity.found
                    THEN Append(opportunity_history, best_opportunity)
                    ELSE opportunity_history
              /\ det_returned' = [calls |-> det_returned.calls + 1,
                                  value |-> best_opportunity,
                                  left_out |-> outcome.left_out,
                                  venues |-> outcome.venues,
                                  top_net |-> outcome.top_net,
                                  any_above |-> outcome.any_above,
                                  returns |-> det_returned.returns
                                              + (IF best_opportunity.found THEN 1 ELSE 0)]
    /\ UNCHANGED <<scanVars, sizeVars, aggVars, triVars, directVars, confVars, simVars, printerVars, lateVars>>

NextDetector == Analyze

SpecDetector == InitDetector /\ [][NextDetector]_vars

\* ------------------------------- PythonArbitrageCalculator.calculate_opportunities
\* price_data['prices'] has at most MaxEntries entries
MaxEntries == 2

\* the entries a prices dictionary is made of
PriceEntries ==
    {[token1 |-> x[1], token2 |-> x[2], price |-> v] :
        x \in RateKeys, v \in {NoPriceKey, 0, 2, 3}}

\* the dictionaries: no two entries with the same key
PriceDicts ==
    UNION {{s \in [1..n -> PriceEntries] :
              \A a, b \in 1..n : a # b =>
                 <<s[a].token1, s[a].token2>> # <<s[b].token1, s[b].token2>>} :
           n \in 0..MaxEntries}

TriangleInputs ==
    {[amount_in |-> a, price_data |-> [given |-> TRUE, prices |-> s]] :
        a \in {1, 2}, s \in PriceDicts}
    \cup {[amount_in |-> a, price_data |-> [given |-> FALSE, prices |-> <<>>]] : a \in {0, 1}}

InitTriangle ==
    /\ ScanInit
    /\ SizeIdle
    /\ AggIdle
    /\ DetectorIdle
    /\ DirectIdle
    /\ ConfidenceIdle
    /\ SimulatorIdle
    /\ PrinterIdleState
    /\ LateIdle
    /\ tri_in \in TriangleInputs
    /\ tri_out = NoTriangles

CalculateOpportunities ==
    /\ ~tri_out.done
    /\ tri_out' = [done |-> TRUE,
                   opportunities |-> calculate_opportunities(tri_in.amount_in,
                                                             tri_in.price_data)]
    /\ UNCHANGED <<scanVars, sizeVars, aggVars, detVars, tri_in, directVars, confVars, simVars, printerVars, lateVars>>

NextTriangle == CalculateOpportunities

SpecTriangle == InitTriangle /\ [][NextTriangle]_vars

\* ------------------------- aggregation with failing sources, both aggregators
\* the traded amounts go up to MaxAmountK thousand units
MaxAmountK == 2

\* the routers check_direct_profitable_path meets
RouterKinds ==
    {[raises |-> "always", pct |-> 0, slip |-> 0],
     [raises |-> "full", pct |-> 101, slip |-> 0],
     [raises |-> "never", pct |-> 99, slip |-> 0],
     [raises |-> "never", pct |-> 101, slip |-> 0],
     [raises |-> "never", pct |-> 102, slip |-> 0],
     [raises |-> "never", pct |-> 102, slip |-> 1]}

\* the orders in which the three futures complete
CompletionOrders ==
    {s \in [1..Len(DirectDexes) -> {DirectDexes[k] : k \in 1..Len(DirectDexes)}] :
        \A a, b \in 1..Len(DirectDexes) : a # b => s[a] # s[b]}

DirectAmounts == {50} \cup {1000 * k : k \in 1..MaxAmountK}

DirectInputs ==
    {[routers |-> r, completed |-> c, amount |-> a] :
        r \in [{DirectDexes[k] : k \in 1..Len(DirectDexes)} -> RouterKinds],
        c \in CompletionOrders, a \in DirectAmounts}

\* either aggregator is handed its sources' answers
InitSources ==
    /\ ScanInit
    /\ SizeIdle
    /\ DetectorIdle
    /\ TriangleIdle
    /\ ConfidenceIdle
    /\ SimulatorIdle
    /\ PrinterIdleState
    /\ LateIdle
    /\ \/ /\ ag_pair \in AggPairs
          /\ ag_prices \in [Dex -> AggPrices]
          /\ ag_out = NotAggregated
          /\ DirectIdle
       \/ /\ AggIdle
          /\ dp_in \in DirectInputs
          /\ dp_out = NotChecked

CheckDirect ==
    /\ ~dp_out.done
    /\ dp_out' = [done |-> TRUE,
                  best |-> check_direct_profitable_path(dp_in.routers, dp_in.completed,
                                                        dp_in.amount)]
    /\ UNCHANGED <<scanVars, sizeVars, aggVars, detVars, triVars, confVars, simVars, printerVars, lateVars, dp_in>>

NextSources ==
    \/ Aggregate
    \/ CheckDirect

SpecSources == InitSources /\ [][NextSources]_vars

\* ----------------------------- confidence from one cycle to the next
\* the sources change at most MaxSteps times
MaxSteps == 2

\* PriceAggregator asks five sources (lines 637-643), get_price_multi_source
\* three routers
LadderSources == 5

ConfidenceQuotes == {96, 100, 102, 108}

\* both confidences for the quotes of the sources that answered: the numeric
\* one when there are at most as many quotes as routers
Confidences(quotes, price) ==
    [tier |-> calculate_confidence(quotes, price),
     numeric |-> IF Len(quotes) <= Len(DexOrder)
                 THEN get_price_multi_source(
                          [d \in Dex |->
                             LET k == CHOOSE j \in 1..Len(DexOrder) : DexOrder[j] = d
                             IN  IF k <= Len(quotes) THEN quotes[k] ELSE 0])
                 ELSE NoData]

InitConfidence ==
    /\ ScanInit
    /\ SizeIdle
    /\ AggIdle
    /\ DetectorIdle
    /\ TriangleIdle
    /\ DirectIdle
    /\ SimulatorIdle
    /\ PrinterIdleState
    /\ LateIdle
    /\ cf_price = 100
    /\ \E n \in 1..LadderSources : cf_quotes \in [1..n -> ConfidenceQuotes]
    /\ cf_prev = NotComputed
    /\ cf_now = Confidences(cf_quotes, cf_price)
    /\ cf_step = [kind |-> "first", count |-> 0]

\* the next cycle has one more source, quoting the median of the cycle before
AddSourceAtMedian ==
    /\ cf_step.count < MaxSteps
    /\ Len(cf_quotes) < LadderSources
    /\ cf_quotes' = Append(cf_quotes, MedianOfSorted(SortAsc(cf_quotes)))
    /\ cf_prev' = cf_now
    /\ cf_now' = Confidences(cf_quotes', cf_price)
    /\ cf_step' = [kind |-> "add", count |-> cf_step.count + 1]
    /\ UNCHANGED <<scanVars, sizeVars, aggVars, detVars, triVars, directVars, simVars, printerVars, lateVars,
                   cf_price>>

\* in the next cycle a source with the lowest quote quotes lower, or one with
\* the highest quote quotes higher; the others quote as before
WidenSpread ==
    /\ cf_step.count < MaxSteps
    /\ Len(cf_quotes) >= 2
    /\ \E k \in 1..Len(cf_quotes), q \in ConfidenceQuotes :
          /\ \/ cf_quotes[k] = SeqMin(cf_quotes) /\ q < cf_quotes[k]
             \/ cf_quotes[k] = SeqMax(cf_quotes) /\ q > cf_quotes[k]
          /\ cf_quotes' = [cf_quotes EXCEPT ![k] = q]
    /\ cf_prev' = cf_now
    /\ cf_now' = Confidences(cf_quotes', cf_price)
    /\ cf_step' = [kind |-> "widen", count |-> cf_step.count + 1]
    /\ UNCHANGED <<scanVars, sizeVars, aggVars, detVars, triVars, directVars, simVars, printerVars, lateVars,
                   cf_price>>

NextConfidence ==
    \/ AddSourceAtMedian
    \/ WidenSpread

SpecConfidence == InitConfidence /\ [][NextConfidence]_vars

\* ------------------------------------------------ simulate_multiple_trades
\* a batch has at most MaxBatch opportunities
MaxBatch == 2

\* well-formed opportunities, the same with one key missing, and the ones
\* analyze_cross_pool_arbitrage builds
SimOpportunities ==
    {[keys |-> SimulatorKeys, roi_percent |-> r, estimated_gas_cost |-> g,
      estimated_profit |-> profit] : r \in {50, 200}, g \in {10}, profit \in {20, 40}}
    \cup {[keys |-> SimulatorKeys \ {"roi_percent"}, roi_percent |-> 0,
           estimated_gas_cost |-> 10, estimated_profit |-> 20],
          [keys |-> SimulatorKeys \ {"estimated_profit"}, roi_percent |-> 100,
           estimated_gas_cost |-> 10, estimated_profit |-> 0],
          [keys |-> AnalyzerKeys, roi_percent |-> 100,
           estimated_gas_cost |-> 0, estimated_profit |-> 20]}

\* what numpy samples for one trade; the profit multiplier is sampled for
\* a trade that executes only
SimDraws ==
    {[gas_multiplier |-> g, execution_success |-> TRUE, profit_multiplier |-> m] :
        g \in {80, 120}, m \in {90, 100}}
    \cup {[gas_multiplier |-> g, execution_success |-> FALSE, profit_multiplier |-> 0] :
             g \in {80, 120}}

SimInputs ==
    {[opportunities |-> o, num_trades |-> n, draws |-> d] :
        o \in UNION {[1..k -> SimOpportunities] : k \in 0..MaxBatch},
        n \in 1..MaxBatch,
        d \in [1..MaxBatch -> SimDraws]}

InitSimulator ==
    /\ ScanInit
    /\ SizeIdle
    /\ AggIdle
    /\ DetectorIdle
    /\ TriangleIdle
    /\ DirectIdle
    /\ ConfidenceIdle
    /\ PrinterIdleState
    /\ LateIdle
    /\ sim_in \in SimInputs
    /\ sim_out = NotSimulated

SimulateMultipleTrades ==
    /\ ~sim_out.done
    /\ sim_out' = [done |-> TRUE,
                   results |-> simulate_multiple_trades(sim_in.opportunities,
                                                        sim_in.num_trades, sim_in.draws)]
    /\ sim_in' = [sim_in EXCEPT !.opportunities = CallersList(@)]
    /\ UNCHANGED <<scanVars, sizeVars, aggVars, detVars, triVars, directVars, confVars,
                   printerVars, lateVars>>

NextSimulator == SimulateMultipleTrades

SpecSimulator == InitSimulator /\ [][NextSimulator]_vars

\* ------------------------------------------------ the scan loop of the printer
\* the loop is followed for MaxScans cycles
MaxScans == 4

\* what the price request answers: a price, or RequestFailed
BnbAnswers == {RequestFailed, 58500, 58600, 58700, 59000}

\* what the balance request answers, in dollars
BalanceAnswers == {RequestFailed, 6000}

InitPrinter ==
    /\ ScanInit
    /\ SizeIdle
    /\ AggIdle
    /\ DetectorIdle
    /\ TriangleIdle
    /\ DirectIdle
    /\ ConfidenceIdle
    /\ SimulatorIdle
    /\ LateIdle
    /\ printer = [PrinterIdle EXCEPT !.running = TRUE]
    /\ fetches = NoFetches

\* one pass of the while loop (lines 371-387); the edges keep no state and
\* catch what they raise
ScanCycle ==
    /\ printer.running
    /\ printer.scan_count < MaxScans
    /\ \E bnb \in BnbAnswers, balance \in BalanceAnswers :
         LET vt == vol_trigger(printer.last_bnb_price, printer.vol_trigger_active, bnb)
         IN  /\ printer' = [running |-> TRUE,
                            scan_count |-> printer.scan_count + 1,
                            last_balance |-> track_flash_loan(printer.last_balance, balance),
                            last_bnb_price |-> vt.last_bnb_price,
                            vol_trigger_active |-> vt.vol_trigger_active,
                            sleep_time |-> SleepTime(vt.returned)]
             /\ fetches' = [now |-> bnb,
                            previous |-> IF fetches.now # RequestFailed
                                         THEN fetches.now ELSE fetches.previous]
    /\ UNCHANGED <<scanVars, sizeVars, aggVars, detVars, triVars, directVars, confVars,
                   simVars, lateVars>>

\* KeyboardInterrupt between two cycles: "Bot stopped."
Interrupt ==
    /\ printer.running
    /\ printer' = [printer EXCEPT !.running = FALSE]
    /\ UNCHANGED <<scanVars, sizeVars, aggVars, detVars, triVars, directVars, confVars,
                   simVars, lateVars, fetches>>

NextPrinter ==
    \/ ScanCycle
    \/ Interrupt

SpecPrinter == InitPrinter /\ [][NextPrinter]_vars

\* ------------------------------------------ rate_limit on concurrent threads
\* the threads of the executor that call rate_limit, once each
MaxThreads == 2

\* the clock is followed up to MaxClock half seconds
MaxClock == 6

LimiterThreads == 1..MaxThreads
InsideRateLimit(t) == limiter.threads[t].pc \notin {"idle", "done"}

\* the module is loaded (last_api_call = 0) and time.time() is far from 0
InitLimiter ==
    /\ ScanInit
    /\ SizeIdle
    /\ AggIdle
    /\ DetectorIdle
    /\ TriangleIdle
    /\ DirectIdle
    /\ ConfidenceIdle
    /\ SimulatorIdle
    /\ PrinterIdleState
    /\ mev = NoProtector
    /\ candidate = NoPath
    /\ limiter = [clock |-> RATE_LIMIT_DELAY, last_api_call |-> 0,
                  threads |-> [t \in LimiterThreads |-> IdleThread],
                  released |-> <<>>, overlap |-> FALSE]

LimiterFrame ==
    UNCHANGED <<scanVars, sizeVars, aggVars, detVars, triVars, directVars, confVars,
                simVars, printerVars, mev, candidate>>

\* half a second passes
Tick ==
    /\ limiter.clock < MaxClock
    /\ limiter' = [limiter EXCEPT !.clock = @ + 1]
    /\ LimiterFrame

\* line 129: now = time.time()
ReadClock(t) ==
    /\ limiter.threads[t].pc = "idle"
    /\ limiter' = [limiter EXCEPT
                     !.threads[t] = [pc |-> "check", now |-> limiter.clock, wake |-> 0],
                     !.overlap = @ \/ \E u \in LimiterThreads : InsideRateLimit(u)]
    /\ LimiterFrame

\* line 130: the comparison against last_api_call
CheckDelay(t) ==
    /\ limiter.threads[t].pc = "check"
    /\ limiter' = [limiter EXCEPT
                     !.threads[t].pc =
                        IF MustSleep(limiter.threads[t].now, limiter.last_api_call)
                        THEN "sleep" ELSE "store"]
    /\ LimiterFrame

\* line 131: time.sleep is entered, with last_api_call read again
EnterSleep(t) ==
    /\ limiter.threads[t].pc = "sleep"
    /\ limiter' = [limiter EXCEPT
                     !.threads[t].pc = "sleeping",
                     !.threads[t].wake =
                        limiter.clock + SleepFor(limiter.threads[t].now,
                                                 limiter.last_api_call)]
    /\ LimiterFrame

\* time.sleep returns, not before the time asked for
LeaveSleep(t) ==
    /\ limiter.threads[t].pc = "sleeping"
    /\ limiter.clock >= limiter.threads[t].wake
    /\ limiter' = [limiter EXCEPT !.threads[t].pc = "store"]
    /\ LimiterFrame

\* line 132: last_api_call = time.time(), and the caller goes on to its request
StoreLast(t) ==
    /\ limiter.threads[t].pc = "store"
    /\ limiter' = [limiter EXCEPT
                     !.threads[t].pc = "done",
                     !.last_api_call = limiter.clock,
                     !.released = Append(@, limiter.clock)]
    /\ LimiterFrame

NextLimiter ==
    \/ Tick
    \/ \E t \in LimiterThreads : ReadClock(t)
    \/ \E t \in LimiterThreads : CheckDelay(t)
    \/ \E t \in LimiterThreads : EnterSleep(t)
    \/ \E t \in LimiterThreads : LeaveSleep(t)
    \/ \E t \in LimiterThreads : StoreLast(t)

SpecLimiter == InitLimiter /\ [][NextLimiter]_vars

\* ----------------------------------------------- the paths of TRI_PATHS one by one
\* the loop of scan_all_paths takes a path out of generate_multi_hop_paths()
InitPaths ==
    /\ ScanInit
    /\ SizeIdle
    /\ AggIdle
    /\ DetectorIdle
    /\ TriangleIdle
    /\ DirectIdle
    /\ ConfidenceIdle
    /\ SimulatorIdle
    /\ PrinterIdleState
    /\ limiter = NoLimiter
    /\ mev = NoProtector
    /\ candidate = NoPath

TakePath ==
    /\ candidate' \in TRI_PATHS
    /\ UNCHANGED <<scanVars, sizeVars, aggVars, detVars, triVars, directVars, confVars,
                   simVars, printerVars, limiter, mev>>

NextPaths == TakePath

SpecPaths == InitPaths /\ [][NextPaths]_vars

\* --------------------------- the simulator next to ArbitrageDetector
\* full batches of well-formed opportunities in every order of roi_percent, each
\* trade executing
FrameInputs ==
    {x \in SimInputs :
        /\ Len(x.opportunities) = MaxBatch
        /\ \A k \in 1..Len(x.opportunities) :
              /\ x.opportunities[k].keys = SimulatorKeys
              /\ x.opportunities[k].estimated_profit = 20
        /\ x.num_trades = MaxBatch
        /\ \A k \in 1..MaxBatch :
              /\ x.draws[k].gas_multiplier = 80
              /\ x.draws[k].profit_multiplier = 100}

InitFrame ==
    /\ ScanInit
    /\ SizeIdle
    /\ AggIdle
    /\ TriangleIdle
    /\ DirectIdle
    /\ ConfidenceIdle
    /\ PrinterIdleState
    /\ LateIdle
    /\ opportunity_history = <<>>
    /\ det_returned = NotCalled
    /\ sim_in \in FrameInputs
    /\ sim_out = NotSimulated

NextFrame ==
    \/ Analyze
    \/ SimulateMultipleTrades

SpecFrame == InitFrame /\ [][NextFrame]_vars

\* --------------------------------------------------- MEVProtectorAI.initialize
ModelFiles == [exists : BOOLEAN, inside : BOOLEAN, sha : {"a", "b"}]
Manifests ==
    {[kind |-> "missing"], [kind |-> "list"]}
    \cup {[kind |-> "dict", entries |-> e] : e \in [ModelNames -> {"", "a", "b"}]}

\* MEVProtectorAI() is constructed over some models directory (lines 23-39)
InitProtector ==
    /\ ScanInit
    /\ SizeIdle
    /\ AggIdle
    /\ DetectorIdle
    /\ TriangleIdle
    /\ DirectIdle
    /\ ConfidenceIdle
    /\ SimulatorIdle
    /\ PrinterIdleState
    /\ limiter = NoLimiter
    /\ candidate = NoPath
    /\ \E f \in [ModelNames -> ModelFiles], m \in Manifests :
          mev = [NoProtector EXCEPT !.dir = [files |-> f, manifest |-> m]]

ProtectorFrame ==
    UNCHANGED <<scanVars, sizeVars, aggVars, detVars, triVars, directVars, confVars,
                simVars, printerVars, limiter, candidate>>

\* initialize() (lines 117-144)
Initialize ==
    /\ mev.dir.files # <<>>
    /\ mev.returned = ""
    /\ LET gas == LoadOrTrain(mev.dir, GasModel)
           det == LoadOrTrain(gas.dir, MevModel)
       IN  mev' =
             IF gas.raised # ""
             THEN [mev EXCEPT !.returned = "False", !.rejected = @ \cup {GasModel}]
             ELSE IF det.raised # ""
             THEN [mev EXCEPT !.dir = gas.dir, !.gas_price_model = gas.model,
                              !.returned = "False",
                              !.deserialized = @ \cup gas.deserialized,
                              !.rejected = @ \cup {MevModel}]
             ELSE [mev EXCEPT !.dir = det.dir, !.gas_price_model = gas.model,
                              !.mev_detector = det.model, !.is_initialized = TRUE,
                              !.returned = "True",
                              !.deserialized = @ \cup gas.deserialized \cup det.deserialized]
    /\ ProtectorFrame

\* load_secure_model called on its own for one of the model files
LoadSecureModel ==
    /\ mev.dir.files # <<>>
    /\ mev.returned = ""
    /\ mev.direct = NotLoaded
    /\ \E name \in ModelNames :
         LET r == load_secure_model(mev.dir.files[name], mev.dir.manifest, name)
         IN  mev' = [mev EXCEPT
                       !.direct = r,
                       !.deserialized =
                          IF r.raised = ""
                          THEN @ \cup {[name |-> name, file |-> mev.dir.files[name],
                                        manifest |-> mev.dir.manifest]}
                          ELSE @]
    /\ ProtectorFrame

NextProtector ==
    \/ Initialize
    \/ LoadSecureModel

SpecProtector == InitProtector /\ [][NextProtector]_vars

\* ======================================================================
\* Properties
\* ======================================================================
ThreeQuarters == [n |-> 3, d |-> 4]
OneTenth == [n |-> 1, d |-> 10]

\* the profit floor of a path of h hops, in cents: $30 for 3 hops, $10 more a hop
FloorCents(h) == 3000 + 1000 * (h - 3)

\* the number of swaps of a ranked opportunity's path
Swaps(o) == Len(o.path.path) - 1

SameOpportunities(old, new) ==
    /\ Len(new) = Len(old)
    /\ \A k \in 1..Len(old) : \E j \in 1..Len(new) : new[j] = old[k]

\* C1: a path whose evaluation carried manipulation_risk is never placed in the
\* ranked opportunities: the gate leaves the list alone for it, whatever its
\* profit and confidence, and the final sort only reorders the list.
C1_ManipulationRiskNeverRanked ==
    [][/\ (pc = "gate" /\ result.manipulation_risk) => opportunities' = opportunities
       /\ (pc = "loop" /\ pc' = "done") => SameOpportunities(opportunities, opportunities')]_vars

\* a path with manipulation risk, profit over its floor and confidence over
\* 0.75 has been through the gate and was not ranked
C1_Witness ==
    /\ pc = "loop"
    /\ last.result.manipulation_risk
    /\ last.result.profit > FloorCents(last.hops)
    /\ FracLT(ThreeQuarters, last.result.confidence)
    /\ ~last.ranked

\* twice the true median of a sorted non-empty sequence
TrueMedianTwice(sorted) ==
    LET n == Len(sorted)
    IN  IF n % 2 = 1 THEN 2 * sorted[(n + 1) \div 2]
        ELSE sorted[n \div 2] + sorted[(n \div 2) + 1]

\* C2: the consensus price is the true median of the valid quotes: the middle
\* value for an odd count, the average of the two middle values for an even one.
C2_TrueMedian ==
    (ag_out.done /\ ag_out.data.sources > 0)
        => 2 * ag_out.data.price = TrueMedianTwice(ValidPrices(ag_prices))

\* C3: the size is within [1000, 50000] USD on every control path.
C3_SizeWithinBand ==
    sz_out.done => (100000 <= sz_out.size /\ sz_out.size <= 5000000)

\* the price conversion gave less than $1000 and the size is the $1000 floor
C3_Witness ==
    /\ sz_out.done
    /\ ~sz_in.liq_raises
    /\ sz_in.path_info.start = CAKE
    /\ sz_in.token_price.price = 4
    /\ sz_out.size = 100000

\* C4: the size never exceeds the minimum hop liquidity times the start
\* token's category fraction (cents: liquidity dollars * percent).
C4_SizeWithinLiquidityFraction ==
    (sz_out.done /\ ~sz_in.liq_raises /\ Len(sz_in.path_info.path) >= 2)
        => sz_out.size <= MinLiquidity(sz_in.path_info.path)
                            * max_position_pct(sz_in.path_info.start)

\* C5: after each hop the carried amount is the quoted output * 9975 / 10000
\* (floor), total_fees holds the differences, and the carried amount is
\* positive when the quoted output is at least 2.
C5_FeeAppliedMultiplicatively ==
    (pc \in {"hop", "final"} /\ price_data.price > 0)
        => /\ amount_in = MulDiv(price_data.price, 9975, 10000)
           /\ (price_data.price >= 2 => amount_in > 0)

\* the amount a walk of three hops ends with when every pool pays pct percent
\* and every swap keeps 99.75%
RECURSIVE WalkOut(_, _, _)
WalkOut(amount, pct, hops) ==
    IF hops = 0 THEN amount
    ELSE WalkOut(MulDiv(MulDiv(amount, pct, 100), 9975, 10000), pct, hops - 1)

\* A * m1 * m2 * m3 - A in cents, for the start amount a (cents)
ExpectedProfit(a, pct) == (WalkOut((a * Wei) \div 100, pct, 3) * 100) \div Wei - a

\* C6: for a 3-hop path whose hops multiply the amount by m1, m2, m3 after
\* fees, the profit is A*m1*m2*m3 - A within a few cents; with every
\* multiplier below 1 it is negative.
C6_ProfitConservation ==
    (pc = "gate" /\ market # 0 /\ p.hops = 3)
        => /\ Abs(result.profit - ExpectedProfit(flash_amount_usd, market)) <= 5
           /\ (market < 100 => result.profit < 0)

\* C7 as amended: with a pre-penalty confidence above 0 the 4-hop confidence is
\* strictly below the 3-hop one; at pre-penalty confidence 0 both are 0.
C7_HopPenaltyStrictAboveZero ==
    pc = "penalty"
        => IF FracLT(FracZero, total_confidence)
           THEN FracLT(ApplyHopPenalty(total_confidence, 4),
                       ApplyHopPenalty(total_confidence, 3))
           ELSE /\ ApplyHopPenalty(total_confidence, 4) = FracZero
                /\ ApplyHopPenalty(total_confidence, 3) = FracZero

\* C7 as stated: strictly lower for every pre-penalty confidence of the walk
C7_HopPenaltyStrict ==
    pc = "penalty"
        => FracLT(ApplyHopPenalty(total_confidence, 4), ApplyHopPenalty(total_confidence, 3))

\* a 4-hop evaluation stands before the penalty with a confidence above 0
C7_Witness ==
    /\ pc = "penalty"
    /\ p.hops = 4
    /\ FracLT(FracZero, total_confidence)
    /\ FracLT(total_confidence, FracOne)

\* C8: every ranked opportunity has a profit above the floor of its hop count,
\* and a path at or below its floor is not ranked.
C8_ProfitAboveHopFloor ==
    /\ \A k \in 1..Len(opportunities) :
          opportunities[k].profit > FloorCents(Swaps(opportunities[k]))
    /\ (last.hops > 0 /\ last.result.profit <= FloorCents(last.hops)) => ~last.ranked

\* a 4-hop path with a profit of exactly $40, confident and unmanipulated, went
\* through the gate unranked after another path had been ranked
C8_Witness ==
    /\ pc = "loop"
    /\ last.hops = 4
    /\ last.result.profit = 4000
    /\ ~last.result.manipulation_risk
    /\ FracLT(ThreeQuarters, last.result.confidence)
    /\ ~last.ranked
    /\ Len(opportunities) >= 1

EffLess(a, b) == a.profit * b.hops < b.profit * a.hops
EffEqual(a, b) == a.profit * b.hops = b.profit * a.hops

Position(s, x) == CHOOSE k \in 1..Len(s) : s[k] = x

\* C9 as amended: the ranked list is in descending order of profit / hops, and
\* opportunities of equal efficiency stay in the order in which they were scanned.
C9_SortedByEfficiencyStable ==
    [][(pc = "loop" /\ pc' = "done")
        => /\ SameOpportunities(opportunities, opportunities')
           /\ \A a, b \in 1..Len(opportunities') :
                 a < b => ~EffLess(opportunities'[a], opportunities'[b])
           /\ \A a, b \in 1..Len(opportunities) :
                 (a < b /\ EffEqual(opportunities[a], opportunities[b]))
                    => Position(opportunities', opportunities[a])
                         < Position(opportunities', opportunities[b])]_vars

\* C9 as stated: descending efficiency, ties in descending confidence
C9_SortedTiesByConfidence ==
    pc = "done"
        => \A a, b \in 1..Len(opportunities) :
              a < b => \/ EffLess(opportunities[b], opportunities[a])
                       \/ /\ EffEqual(opportunities[a], opportunities[b])
                          /\ FracLE(opportunities[b].confidence, opportunities[a].confidence)

\* the returned list holds two opportunities of equal efficiency and unequal
\* confidence
C9_Witness ==
    /\ pc = "done"
    /\ Len(opportunities) >= 2
    /\ EffEqual(opportunities[1], opportunities[2])
    /\ opportunities[1].confidence # opportunities[2].confidence
    /\ opportunities[1].hops # opportunities[2].hops

C12_UnansweredQueryRejected ==
    unanswered =>
        \/ pc = "gate" /\ result = Rejection
        \/ pc = "loop" /\ last.result = Rejection /\ ~last.ranked

\* the part of C12 that the walk over the hops and the two conversions keep:
\* outside line 264 an unanswered query ends in the rejection result
C12_UnansweredInWalkRejected ==
    (unanswered /\ pc # "crashed") =>
        \/ pc = "gate" /\ result = Rejection
        \/ pc = "loop" /\ last.result = Rejection /\ ~last.ranked

\* the rate of a leg was supplied: price_data has a positive price for the
\* pair or for its reverse
Supplied(data, token1, token2) ==
    /\ data.given
    /\ \E k \in 1..Len(data.prices) :
          /\ data.prices[k].price > 0
          /\ {data.prices[k].token1, data.prices[k].token2} = {token1, token2}

\* C13: every opportunity calculate_opportunities returns is for a path all of
\* whose three legs have a supplied rate.
C13_NoSubstitutedRate ==
    tri_out.done =>
      \A k \in 1..Len(tri_out.opportunities) :
         LET path == tri_out.opportunities[k].path
         IN  /\ Supplied(tri_in.price_data, path[1], path[2])
             /\ Supplied(tri_in.price_data, path[2], path[3])
             /\ Supplied(tri_in.price_data, path[3], path[1])

\* the quotes of the sources that answered, in router order
RemainingQuotes(prices) ==
    SelectSeq([k \in 1..Len(DexOrder) |-> prices[DexOrder[k]]], LAMBDA x : x > 0)

\* the aggregation of lines 178-199 carried out on a list of quotes
AggregateOf(quotes) ==
    LET sorted == SortAsc(quotes)
        m == sorted[(Len(sorted) \div 2) + 1]
        far == CHOOSE k \in 1..Len(quotes) :
                  \A j \in 1..Len(quotes) : Abs(quotes[j] - m) <= Abs(quotes[k] - m)
        worst == Frac(Abs(quotes[far] - m), m)
    IN  [price |-> m,
         confidence |-> IF FracLT(FracOne, worst) THEN FracZero ELSE FracSub(FracOne, worst),
         manipulation_detected |-> FracLT(Frac(1, 20), worst),
         sources |-> Len(quotes)]

\* the routers of a call whose calls never raise, in completion order
WorkingRouters(in) ==
    SelectSeq(in.completed, LAMBDA d : in.routers[d].raises = "never")

\* C14: with any set of failing sources that leaves one working, both
\* aggregators return what the quotes of the remaining sources alone give.
C14_FailingSourcesLeftOut ==
    /\ (ag_out.done /\ RemainingQuotes(ag_prices) # <<>>) =>
          ag_out.data = AggregateOf(RemainingQuotes(ag_prices))
    /\ dp_out.done =>
          dp_out.best = check_direct_profitable_path(dp_in.routers, WorkingRouters(dp_in),
                                                     dp_in.amount)

\* the first future to complete had failed, another source failed on the full
\* amount only, and the third gave the trade that was returned
C14_Witness ==
    /\ dp_out.done
    /\ dp_in.routers[dp_in.completed[1]].raises = "always"
    /\ \E d \in DOMAIN dp_in.routers : dp_in.routers[d].raises = "full"
    /\ dp_out.best.found

\* one source failed, the two others disagreed and the price was aggregated
C14_WitnessAggregate ==
    /\ ag_out.done
    /\ Len(RemainingQuotes(ag_prices)) = 2
    /\ ag_out.data.manipulation_detected

\* PriceAggregator.get_token_type on the tokens of the scan (symbols BTC, BNB
\* and WBNB are its major tokens; USDT, USDC, BUSD and DAI its stablecoins)
get_token_type(token) ==
    IF token \in {USDT, USDC, BUSD} THEN "stablecoin"
    ELSE IF token \in {BTCB, WBNB} THEN "major_token"
    ELSE "other_token"

\* validation_thresholds[category]['max_deviation'] for a pair (lines 203-209)
CategoryMaxDeviation(pair) ==
    LET base_type == get_token_type(pair[1])
        quote_type == get_token_type(pair[2])
    IN  IF base_type = "stablecoin" /\ quote_type = "stablecoin" THEN Frac(15, 100)
        ELSE IF base_type = "major_token" \/ quote_type = "major_token" THEN Frac(20, 100)
        ELSE Frac(25, 100)

\* some answering source is further from the returned price than the fraction t of it
DeviatesBeyond(t) ==
    \E d \in Dex :
       /\ ag_prices[d] > 0
       /\ FracLT(t, Frac(Abs(ag_prices[d] - ag_out.data.price), ag_out.data.price))

\* C15 as amended: for every pair, whatever its category, manipulation_detected
\* is true exactly when some answering source is more than 5% away from the
\* returned price.
C15_FlatFivePercentThreshold ==
    (ag_out.done /\ ag_out.data.price > 0) =>
        (ag_out.data.manipulation_detected <=>
            \E d \in Dex : ag_prices[d] > 0
                            /\ 20 * Abs(ag_prices[d] - ag_out.data.price) > ag_out.data.price)

\* C15 as stated: manipulation_detected is true exactly when some source deviates
\* by more than the threshold of the pair's category (15%, 20%, 25%).
C15_CategoryThreshold ==
    (ag_out.done /\ ag_out.data.price > 0) =>
        (ag_out.data.manipulation_detected <=> DeviatesBeyond(CategoryMaxDeviation(ag_pair)))

\* a stablecoin pair was flagged with every source within 15% of the price
C15_Witness ==
    /\ ag_out.done
    /\ ag_pair = <<USDT, USDC>>
    /\ ag_out.data.manipulation_detected
    /\ ~DeviatesBeyond(Frac(15, 100))
    /\ ag_out.data.sources = 3

TierOrder == <<"low", "medium", "high", "very_high">>
TierRank(tier) == CHOOSE k \in 1..Len(TierOrder) : TierOrder[k] = tier
NumericCompared == cf_prev.numeric.sources > 0 /\ cf_now.numeric.sources > 0

\* C16: from one cycle to the next, a further source quoting the median never
\* lowers the confidence and a wider spread among the same sources never
\* raises it, both for the tier of _calculate_confidence and for the numeric
\* confidence of get_price_multi_source
C16_ConfidenceMonotonic ==
    cf_step.kind \in {"add", "widen"} =>
        /\ cf_prev.tier \in {TierOrder[k] : k \in 1..Len(TierOrder)}
        /\ cf_now.tier \in {TierOrder[k] : k \in 1..Len(TierOrder)}
        /\ cf_step.kind = "add" => TierRank(cf_now.tier) >= TierRank(cf_prev.tier)
        /\ cf_step.kind = "widen" => TierRank(cf_now.tier) <= TierRank(cf_prev.tier)
        /\ NumericCompared /\ cf_step.kind = "add" =>
               FracLE(cf_prev.numeric.confidence, cf_now.numeric.confidence)
        /\ NumericCompared /\ cf_step.kind = "widen" =>
               FracLE(cf_now.numeric.confidence, cf_prev.numeric.confidence)

\* the numeric confidence of get_price_multi_source alone is monotonic
C16_NumericMonotonic ==
    NumericCompared =>
        /\ cf_step.kind = "add" =>
               FracLE(cf_prev.numeric.confidence, cf_now.numeric.confidence)
        /\ cf_step.kind = "widen" =>
               FracLE(cf_now.numeric.confidence, cf_prev.numeric.confidence)

\* the numeric confidence falls when the spread widens
C16_NumericWitness ==
    /\ NumericCompared
    /\ cf_step.kind = "widen"
    /\ FracLT(cf_now.numeric.confidence, cf_prev.numeric.confidence)

RECURSIVE SumSeq(_)
SumSeq(s) == IF s = <<>> THEN 0 ELSE Head(s) + SumSeq(Tail(s))

\* the trades of the call made, in the order they are simulated, and per trade
\* the gas cost sampled and the profit realised (none for a failed trade)
SimulatedTrades ==
    SubSeq(SortByRoiDesc(sim_in.opportunities, Len(sim_in.opportunities)), 1,
           Min2(sim_in.num_trades, Len(sim_in.opportunities)))
SampledGasCosts ==
    [k \in 1..Len(SimulatedTrades) |->
        SimulatedTrades[k].estimated_gas_cost * sim_in.draws[k].gas_multiplier]
RealisedProfits ==
    [k \in 1..Len(SimulatedTrades) |->
        IF sim_in.draws[k].execution_success
        THEN SimulatedTrades[k].estimated_profit * sim_in.draws[k].profit_multiplier
        ELSE 0]
SimReturned == sim_out.done /\ sim_out.results.raised = ""

\* C17: the net_profit returned is the profit of the successful trades minus
\* the gas cost of all trades, failed ones included, and a failed trade adds
\* nothing to total_profit
C17_FailedTradesCostTheirGas ==
    SimReturned =>
        /\ sim_out.results.net_profit = SumSeq(RealisedProfits) - SumSeq(SampledGasCosts)
        /\ sim_out.results.total_profit = SumSeq(RealisedProfits)
        /\ sim_out.results.total_gas_cost = SumSeq(SampledGasCosts)

\* a call that returned after one trade failed and one executed
C17_Witness ==
    /\ SimReturned
    /\ sim_out.results.failed_trades >= 1
    /\ sim_out.results.successful_trades >= 1

WellFormed(opportunity) == SimulatorKeys \subseteq opportunity.keys
MalformedInBatch ==
    \E k \in 1..Len(sim_in.opportunities) : ~WellFormed(sim_in.opportunities[k])

\* C18: a batch with a malformed opportunity does not abort the call, and when
\* the whole batch is gone through every well-formed opportunity of it is
\* simulated
C18_MalformedSkipped ==
    sim_out.done /\ MalformedInBatch =>
        /\ sim_out.results.raised = ""
        /\ sim_in.num_trades >= Len(sim_in.opportunities) =>
               sim_out.results.successful_trades + sim_out.results.failed_trades
                  = Len(SelectSeq(sim_in.opportunities, WellFormed))

\* a batch of well-formed opportunities is simulated in full
C18_WellFormedBatchSimulated ==
    sim_out.done /\ ~MalformedInBatch =>
        /\ sim_out.results.raised = ""
        /\ sim_out.results.successful_trades + sim_out.results.failed_trades
              = Min2(sim_in.num_trades, Len(sim_in.opportunities))

\* C19: the values calculate_multi_hop_profit reports come from the one
\* observation of each hop made during the walk: no hop is asked a second
\* time, and sources_used is the fewest sources of those observations
C19_HopsObservedOnce ==
    /\ pc \in {"sources", "gate", "crashed"} => walk.requeried = 0
    /\ pc = "gate" /\ result # Rejection => result.sources_used = walk.sources

CycleDone == printer.scan_count > 0 /\ printer.running

\* C20: a cycle sleeps 2.5 s exactly when the price it fetched is more than
\* 0.3% away from the price of the latest earlier cycle that fetched one, and
\* 6.8 s otherwise; after a successful fetch the remembered price is the
\* price just fetched
C20_FastModeFollowsLatestMove ==
    CycleDone =>
        /\ printer.sleep_time \in {25, 68}
        /\ printer.sleep_time = 25 <=>
               /\ fetches.now # RequestFailed
               /\ fetches.previous # RequestFailed
               /\ MovedBeyond(fetches.now, fetches.previous)
        /\ fetches.now # RequestFailed => printer.last_bnb_price = fetches.now

\* a cycle sleeps 2.5 s only if it fetched a price away from the remembered one,
\* and the remembered price is then left as it was
C20_FastModeKeepsReference ==
    CycleDone /\ printer.sleep_time = 25 =>
        /\ fetches.now # RequestFailed
        /\ printer.vol_trigger_active
        /\ printer.last_bnb_price # fetches.now
        /\ MovedBeyond(fetches.now, printer.last_bnb_price)

ReleasesApart ==
    \A j, k \in 1..Len(limiter.released) :
        j < k => limiter.released[k] - limiter.released[j] >= RATE_LIMIT_DELAY

\* C21: any two calls that pass through rate_limit are released at least
\* RATE_LIMIT_DELAY apart, however the threads interleave
C21_ReleasesApart == ReleasesApart

\* calls that are not inside rate_limit at the same time are released at
\* least RATE_LIMIT_DELAY apart
C21_SequentialReleasesApart == ~limiter.overlap => ReleasesApart

\* the ordered choices of h distinct tokens
DistinctTokens(h) ==
    {s \in [1..h -> TokenSet] : \A j, k \in 1..h : j # k => s[j] # s[k]}
CycleThrough(s) == [path |-> Append(s, s[1]), start |-> s[1], hops |-> Len(s)]

\* C22: for every hop count from 3 to 6 and every ordered choice of that
\* many distinct tokens, the cycle through them is among the generated paths
\* (stated for the choices that begin at the token the path taken begins at)
C22_CyclesOfThreeToSixHops ==
    candidate # NoPath =>
        \A h \in 3..6 : \A s \in DistinctTokens(h) :
            s[1] = candidate.start => CycleThrough(s) \in TRI_PATHS

\* the cycles of 3 and of 4 hops are all generated
C22_CyclesOfThreeAndFourHops ==
    candidate # NoPath =>
        \A h \in 3..4 : \A s \in DistinctTokens(h) :
            s[1] = candidate.start => CycleThrough(s) \in TRI_PATHS

IsCycle(x) ==
    /\ x.path[1] = x.path[Len(x.path)]
    /\ x.path[1] = x.start
    /\ \A j, k \in 1..(Len(x.path) - 1) : j # k => x.path[j] # x.path[k]
    /\ x.hops = Len(x.path) - 1

\* C25: every generated path starts and ends at its 'start' token, visits
\* pairwise distinct tokens before returning, and has 'hops' = len(path) - 1
C25_EveryPathIsCycle == candidate # NoPath => IsCycle(candidate)

\* a quadruple path has been taken
C25_Witness == candidate # NoPath /\ candidate.hops = 4 /\ Len(candidate.path) = 5

\* C23: a call of simulate_multiple_trades leaves the caller's list of
\* opportunities as it was and writes nothing that scan_all_paths or
\* analyze_opportunity keep or read
C23_SimulatorLeavesRankingAlone ==
    [][(~sim_out.done /\ sim_out'.done) => (sim_in' = sim_in /\ UNCHANGED <<scanVars, detVars>>)]_vars

\* the simulator has run on a batch it had to reorder, after the detector
\* recorded an opportunity
C23_Witness ==
    /\ sim_out.done
    /\ sim_out.results.raised = ""
    /\ Len(sim_in.opportunities) = 2
    /\ sim_in.opportunities[1].roi_percent < sim_in.opportunities[2].roi_percent
    /\ opportunity_history # <<>>

ChecksPassed(d) ==
    /\ d.file.exists
    /\ d.file.inside
    /\ load_manifest(d.manifest).kind = "dict"
    /\ load_manifest(d.manifest).entries[d.name] # ""
    /\ d.file.sha = load_manifest(d.manifest).entries[d.name]

\* C24: a model file is deserialized only if it exists inside the models
\* directory, the manifest has an entry for it and its SHA-256 equals the
\* entry; when a check fails for a file, initialize() returns False and no
\* model comes from that file
C24_DeserializedOnlyAfterChecks ==
    /\ \A d \in mev.deserialized : ChecksPassed(d)
    /\ mev.rejected # {} => mev.returned = "False" /\ ~mev.is_initialized
    /\ GasModel \in mev.rejected => mev.gas_price_model = ""
    /\ MevModel \in mev.rejected => mev.mev_detector = ""
    /\ \A name \in mev.rejected : \A d \in mev.deserialized : d.name # name
    /\ mev.direct.raised # "" => mev.direct.model = ""

\* initialize() loaded the gas model from its verified file and turned the
\* MEV model's file down for its checksum
C24_Witness ==
    /\ mev.returned = "False"
    /\ mev.gas_price_model = "a"
    /\ MevModel \in mev.rejected
    /\ mev.dir.files[MevModel].inside
    /\ mev.dir.manifest.kind = "dict"
    /\ mev.dir.manifest.entries[MevModel] = "b"
    /\ mev.dir.files[MevModel].sha = "a"

\* the profit percentage line 112 computes for a path, under the rates and the
\* amount of the call made
ProfitPercentageOf(path) ==
    path_profit_percentage(path, tri_in.amount_in, get_exchange_rates(tri_in.price_data))

\* C26: the opportunities calculate_opportunities returns are in descending
\* order of profit percentage and each has a profit percentage above 0.5
C26_SortedByProfitPercentage ==
    tri_out.done =>
        /\ \A k \in 1..Len(tri_out.opportunities) :
              FracLT(Frac(1, 2), ProfitPercentageOf(tri_out.opportunities[k].path))
        /\ \A k \in 1..(Len(tri_out.opportunities) - 1) :
              FracLE(ProfitPercentageOf(tri_out.opportunities[k + 1].path),
                     ProfitPercentageOf(tri_out.opportunities[k].path))

\* each returned opportunity has a profit percentage above 0.5
C26_EachAboveHalfPercent ==
    tri_out.done =>
        \A k \in 1..Len(tri_out.opportunities) :
            FracLT(Frac(1, 2), ProfitPercentageOf(tri_out.opportunities[k].path))

\* C27: the value scan_all_paths returns is the profit of a path that passed
\* the full gate (an entry of opportunities) or zero
C27_ReturnsGatedProfitOrZero ==
    pc = "done" =>
        \/ returned = 0
        \/ \E k \in 1..Len(opportunities) : opportunities[k].profit = returned

\* with an opportunity found, the value returned is the profit of one
C27_ReturnsGatedProfitWhenFound ==
    (pc = "done" /\ opportunities # <<>>) =>
        \E k \in 1..Len(opportunities) : opportunities[k].profit = returned

\* the lower of two levels on the ladder low < medium < high < very_high
LadderMin(a, b) == IF TierRank(b) < TierRank(a) THEN b ELSE a

\* C28: the confidence of the opportunity analyze_opportunity returns is the
\* lower of the buy venue's and the sell venue's levels on the ladder
C28_ConfidenceIsLowerLevel ==
    det_returned.value.found =>
        det_returned.value.confidence =
            LadderMin(det_returned.venues.buy, det_returned.venues.sell)

\* the confidence is one of the two venues' levels, and the lower one when the
\* two levels are not both among medium, high and very_high
C28_ConfidenceIsOneOfTheLevels ==
    det_returned.value.found =>
        /\ det_returned.value.confidence
               \in {det_returned.venues.buy, det_returned.venues.sell}
        /\ (det_returned.venues.buy = det_returned.venues.sell
            \/ "low" \in {det_returned.venues.buy, det_returned.venues.sell})
           => det_returned.value.confidence =
                 LadderMin(det_returned.venues.buy, det_returned.venues.sell)

\* C29: the trade size of calculate_optimal_trade_size is at most 20% of the
\* buy liquidity, 20% of the sell liquidity and max_trade_size, and its price
\* impact on either venue is at most max_price_impact
C29_SizeAndImpactCapped ==
    det_returned.value.found =>
        LET o == det_returned.value
        IN  /\ FracLE(o.trade_size_usd, LiquidityShare(o.buy_liquidity))
            /\ FracLE(o.trade_size_usd, LiquidityShare(o.sell_liquidity))
            /\ FracLE(o.trade_size_usd, FracInt(max_trade_size))
            /\ FracLE(price_impact(o.trade_size_usd, o.buy_liquidity),
                      float(max_price_impact))
            /\ FracLE(price_impact(o.trade_size_usd, o.sell_liquidity),
                      float(max_price_impact))

\* the trade size is at most 20% of either liquidity and max_trade_size
C29_SizeCapped ==
    det_returned.value.found =>
        LET o == det_returned.value
        IN  /\ FracLE(o.trade_size_usd, LiquidityShare(o.buy_liquidity))
            /\ FracLE(o.trade_size_usd, LiquidityShare(o.sell_liquidity))
            /\ FracLE(o.trade_size_usd, FracInt(max_trade_size))

\* a call appends what it returns to opportunity_history, and nothing when it
\* returns None
HistoryFollowsReturns ==
    det_returned'.calls = det_returned.calls + 1 =>
        opportunity_history' =
            IF det_returned'.value.found
            THEN Append(opportunity_history, det_returned'.value)
            ELSE opportunity_history

\* what is returned has the largest net profit among the pairs of different
\* venues with complete data and a net profit above the threshold, and
\* something is returned when there is such a pair
ReturnsTheMostProfitable ==
    /\ det_returned.value.found = det_returned.any_above
    /\ det_returned.value.found =>
           det_returned.value.net_profit_usd = det_returned.top_net

\* C30: opportunity_history grows by one entry on each call that returns an
\* opportunity and stays as it is on each call that returns None, the
\* opportunity returned has the largest net profit among the qualifying pairs,
\* and get_historical_stats()['total_opportunities'] is the number of returns
\* that were not None
C30_HistoryCountsReturns ==
    /\ [][HistoryFollowsReturns]_vars
    /\ [](ReturnsTheMostProfitable)
    /\ [](det_returned.calls > 0 =>
            /\ "total_opportunities" \in get_historical_stats(opportunity_history).keys
            /\ get_historical_stats(opportunity_history).total_opportunities
                  = det_returned.returns)

\* C30 (amended): as above, with 'total_opportunities' the number of returns
\* that were not None once there is one; until then get_historical_stats()
\* is an empty dict
C30_HistoryCountsReturnsOnceNonEmpty ==
    /\ [][HistoryFollowsReturns]_vars
    /\ [](ReturnsTheMostProfitable)
    /\ [](IF det_returned.returns > 0
          THEN /\ "total_opportunities" \in get_historical_stats(opportunity_history).keys
               /\ get_historical_stats(opportunity_history).total_opportunities
                     = det_returned.returns
          ELSE get_historical_stats(opportunity_history).keys = {})

\* two calls, the first returning None and the second an opportunity
C30_Witness ==
    /\ det_returned.calls = 2
    /\ det_returned.returns = 1
    /\ det_returned.value.found
    /\ Len(opportunity_history) = 1
    /\ opportunity_history[1] = det_returned.value

\* C10: every ranked opportunity has a post-penalty confidence above 0.75, and a
\* path whose post-penalty confidence is at most 0.75 is not ranked.
C10_ConfidenceAboveFloor ==
    /\ \A k \in 1..Len(opportunities) : FracLT(ThreeQuarters, opportunities[k].confidence)
    /\ FracLE(last.result.confidence, ThreeQuarters) => ~last.ranked

\* a 4-hop path whose confidence the penalty took from above 0.75 to 0.75 or
\* less, with a profit over its floor, went through the gate unranked
C10_Witness ==
    /\ pc = "loop"
    /\ last.hops = 4
    /\ last.result.profit > FloorCents(4)
    /\ FracLE(last.result.confidence, ThreeQuarters)
    /\ FracLT(FracSub(ThreeQuarters, OneTenth), last.result.confidence)
    /\ ~last.ranked

====
